---- MODULE Spec2Model ----
(***************************************************************************)
(* Model of the multi-hop SSH tunnel library (package tunnel).             *)
(*                                                                         *)
(* The tunnel object (tunnel.go, type Tunnel) is the shared state; every   *)
(* goroutine that calls Dial / Listen / LocalForward / Close is a process  *)
(* with a program counter.  One action is one step of a goroutine between  *)
(* two points where another goroutine can observe or change shared state:  *)
(* an atomic load/swap of the closed flag, a critical section of t.mu, a   *)
(* call into the SSH collaborator (dial, handshake, listen, close).        *)
(*                                                                         *)
(* Go indexes hops from 0; TLA+ sequences start at 1, so the session of    *)
(* hop k (Go index) is clients[k + 1].                                     *)
(***************************************************************************)
EXTENDS Integers, Sequences, FiniteSets, TLC

\* ------------------------------------------------------------------ bounds
MaxHops == 2
MaxProcs == 2
MaxCalls == 3
MaxOpts == 3
MaxAccepts == 1
MaxSpecs == 2
MaxSpecLen == 5

Procs == 1 .. MaxProcs
NoOne == 0   \* no goroutine: Procs starts at 1
None == << >>

VARIABLES
    cfg,          \* Tunnel.cfg          (immutable after Create)
    clients,      \* Tunnel.clients      sequence of sessions (ssh.Client)
    closed,       \* Tunnel.closed       atomic.Bool
    mu,           \* Tunnel.mu           holder of the mutex, NoOne when free
    connTrack,    \* Tunnel.connTrack    set of raw connections
    listeners,    \* Tunnel._listeners   set of listeners
    sessOpen,     \* sessions on which Close was not yet called
    sessClosed,   \* sessions on which Close was called
    connOpen,     \* raw connections not yet closed
    connClosed,   \* raw connections closed at least once
    lnOpen,       \* listeners not yet closed
    lnClosed,     \* listeners closed at least once
    onceRun,      \* trackedConn wrappers inside once.Do (closed, onClose pending)
    onceDone,     \* trackedConn wrappers whose once.Do has completed
    serving,      \* listeners with a serveForward accept loop running
    keepAlives,   \* sessions with a keepAlive loop running
    pc,           \* per goroutine: position in the code
    op,           \* per goroutine: the public operation being executed
    hopIdx,       \* per goroutine: loop variable i of ensureChain / Close
    res,          \* per goroutine: connection / listener the call obtained
    errs,         \* per goroutine: local "errs" of Close
    event,        \* what the last step returned to its caller or got from a Close()
    tunnelClosed, \* history: objects Tunnel.Close has called Close() on
    buildFailed,  \* history: some hop loop of ensureChain returned an error
    tornDown,     \* history: number of Tunnel.Close calls that ran the teardown
    crashed,      \* the process panicked (index out of range)
    calls,        \* history: number of public operations entered so far
    opts,         \* Create: options not yet applied
    osUser,       \* Create: name user.Current() reports, << >> when it fails
    created,      \* Create: outcome ("pending", "tunnel", or the error)
    underlay,     \* history: << session, what its connection was dialed through >>
    watchers,     \* listeners whose ListenContext goroutine waits for ctx.Done()
    ctxLive,      \* listeners whose ctx can still be cancelled
    ctxDone,      \* listeners whose ctx was cancelled
    accepted,     \* serveForward: << listener, connection >> accepted, not yet tracked
    lc,           \* per goroutine: local connection a forward handler serves
    copied,       \* per goroutine: directions of pipe that have finished
    halfClosed,   \* connections on which CloseWrite was called
    fwdConns,     \* history: connections that belong to LocalForward
    hk,           \* resolveHostKeyCallback: its inputs and result
    agentSock,    \* SSH_AUTH_SOCK is set and the agent answers on it
    ph,           \* ParseHops: its inputs, loop position and result
    tornResult    \* history: what the teardown of Close returned ("none" before)

vars == << cfg, clients, closed, mu, connTrack, listeners, sessOpen, sessClosed,
           connOpen, connClosed, lnOpen, lnClosed, onceRun, onceDone, serving,
           keepAlives, pc, op, hopIdx, res, errs, event, tunnelClosed,
           buildFailed, tornDown, crashed, calls, opts, osUser, created,
           underlay, watchers, ctxLive, ctxDone, accepted, lc, copied,
           halfClosed, fwdConns, hk, agentSock, ph, tornResult >>

tunnelVars == << clients, closed, mu, connTrack, listeners >>
objVars == << sessOpen, sessClosed, connOpen, connClosed, lnOpen, lnClosed,
              onceRun, onceDone, serving, keepAlives >>
histVars == << tunnelClosed, buildFailed, tornDown, crashed >>
createVars == << cfg, opts, osUser, created >>
ctxVars == << watchers, ctxLive, ctxDone >>
fwdVars == << accepted, lc, copied, halfClosed, fwdConns >>
auxVars == << underlay, ctxVars, fwdVars, hk, agentSock, ph, tornResult >>

\* ------------------------------------------------------------------ errors
ErrNoHops == "ErrNoHops"
ErrNoAuth == "ErrNoAuth"
ErrClosed == "ErrClosed"

\* fmt.Errorf("%w: provide WithSigner/WithKeyFile or WithAgent()", ErrNoAuth)
ErrNoAuthWrapped == "ErrNoAuth: provide WithSigner/WithKeyFile or WithAgent()"

\* tunnel_test.go: unwrap, the sentinel an error chain matches under errors.Is
\* (the error itself when it matches none).
unwrap(err) == IF err = ErrNoAuthWrapped THEN ErrNoAuth ELSE err

\* ------------------------------------------------------------------ strings
\* A Go string is a sequence of one-character strings.
Contains(s, ch) == \E i \in 1 .. Len(s) : s[i] = ch

\* strings.SplitN(s, sep, 2) for a one-character sep that s contains.
SplitN2(s, sep) ==
    LET i == CHOOSE k \in 1 .. Len(s) : s[k] = sep /\ \A j \in 1 .. k - 1 : s[j] # sep
    IN << SubSeq(s, 1, i - 1), SubSeq(s, i + 1, Len(s)) >>

\* ------------------------------------------------------------------ config
\* config.go: defaultConfig.  Durations are in seconds.
defaultConfig ==
    [ Hops           |-> << >>,
      Signers        |-> << >>,
      UseAgent       |-> FALSE,
      KnownHostsPath |-> << >>,
      HostKeyCB      |-> "nil",
      PerHopTimeout  |-> 10,
      KeepAlive      |-> 30,
      TrackConns     |-> TRUE,
      Logger         |-> "stdout" ]

\* tunnel.go: type Hop, with the fields ParseHop leaves at their zero value.
Hop(u, hp) ==
    [ User |-> u, HostPort |-> hp, HostKeyCallback |-> "nil",
      KnownHostsPath |-> << >>, Timeout |-> 0 ]

\* tunnel.go: ParseHop.  u is the name user.Current() reports, << >> when the
\* lookup fails.  The result is [err, hop].
ParseHop(s, u) ==
    LET at == Contains(s, "@")
        userPart == IF at THEN SplitN2(s, "@")[1] ELSE << >>
        hp == IF at THEN SplitN2(s, "@")[2] ELSE s
        hostPort == IF ~Contains(hp, ":") THEN hp \o << ":", "2", "2" >> ELSE hp
    IN  IF userPart = << >> /\ u = << >>
        THEN [ err |-> "ErrParseHop", hop |-> Hop(<< >>, << >>) ]
        ELSE [ err |-> "nil",
               hop |-> Hop(IF userPart = << >> THEN u ELSE userPart, hostPort) ]

\* The hop "a@<k-th host>:22" as ParseHop returns it.
HostNames == << "h", "i", "j", "k", "l", "m" >>
HopOf(k) == ParseHop(<< "a", "@", HostNames[k] >>, << >>).hop

\* config.go: the options, as [kind, arg].  For WithKey and WithKeyFile arg
\* says what parsing the PEM data (reading the file) comes to.
Options ==
    { [kind |-> "WithHop", arg |-> s] :
        s \in { << "a", "@", "h" >>, << "h", ":", "2" >>, << >> } }
    \cup { [kind |-> "WithHops", arg |-> << HopOf(1) >>] }
    \cup { [kind |-> "WithSigner", arg |-> "signer"] }
    \cup { [kind |-> "WithKey", arg |-> r] : r \in {"ok", "ErrParseKey"} }
    \cup { [kind |-> "WithKeyFile", arg |-> r] : r \in {"ok", "ErrReadKey"} }
    \cup { [kind |-> "WithAgent", arg |-> TRUE] }
    \cup { [kind |-> "WithoutAgent", arg |-> FALSE] }
    \cup { [kind |-> "WithKnownHosts", arg |-> << "k", "h" >>] }
    \cup { [kind |-> "WithHostKeyCallback", arg |-> "cb"] }
    \cup { [kind |-> "WithPerHopTimeout", arg |-> 5] }
    \cup { [kind |-> "WithKeepAlive", arg |-> 0] }
    \cup { [kind |-> "WithConnTracking", arg |-> FALSE] }
    \cup { [kind |-> "WithLogger", arg |-> "custom"] }

\* Applying one option to the configuration: [err, cfg].
ApplyOption(c, o, u) ==
    LET ok(c2) == [err |-> "nil", cfg |-> c2]
        fail(e) == [err |-> e, cfg |-> c]
    IN CASE o.kind = "WithHop" ->
              IF ParseHop(o.arg, u).err # "nil" THEN fail(ParseHop(o.arg, u).err)
              ELSE ok([c EXCEPT !.Hops = Append(@, ParseHop(o.arg, u).hop)])
         [] o.kind = "WithHops" -> ok([c EXCEPT !.Hops = @ \o o.arg])
         [] o.kind = "WithSigner" -> ok([c EXCEPT !.Signers = Append(@, o.arg)])
         [] o.kind \in {"WithKey", "WithKeyFile"} ->
              IF o.arg # "ok" THEN fail(o.arg)
              ELSE ok([c EXCEPT !.Signers = Append(@, "signer")])
         [] o.kind \in {"WithAgent", "WithoutAgent"} -> ok([c EXCEPT !.UseAgent = o.arg])
         [] o.kind = "WithKnownHosts" -> ok([c EXCEPT !.KnownHostsPath = o.arg])
         [] o.kind = "WithHostKeyCallback" -> ok([c EXCEPT !.HostKeyCB = o.arg])
         [] o.kind = "WithPerHopTimeout" -> ok([c EXCEPT !.PerHopTimeout = o.arg])
         [] o.kind = "WithKeepAlive" -> ok([c EXCEPT !.KeepAlive = o.arg])
         [] o.kind = "WithConnTracking" -> ok([c EXCEPT !.TrackConns = o.arg])
         [] o.kind = "WithLogger" -> ok([c EXCEPT !.Logger = o.arg])

\* Create with the authentication check ahead of the hop check.
CreateCheck_AuthFirst(c) ==
    IF Len(c.Signers) = 0 /\ ~c.UseAgent THEN ErrNoAuthWrapped
    ELSE IF Len(c.Hops) = 0 THEN ErrNoHops
    ELSE "tunnel"

\* Create that accepts the agent's default for an authentication method.
CreateCheck_NoAuthCheck(c) ==
    IF Len(c.Hops) = 0 THEN ErrNoHops
    ELSE "tunnel"

\* Create that takes only a signer for an authentication method.
CreateCheck_SignerOnly(c) ==
    IF Len(c.Hops) = 0 THEN ErrNoHops
    ELSE IF Len(c.Signers) = 0 THEN ErrNoAuthWrapped
    ELSE "tunnel"

\* The checks Create makes on the configuration once every option is applied.
CreateCheck(c) ==
    IF Len(c.Hops) = 0 THEN ErrNoHops
    ELSE IF Len(c.Signers) = 0 /\ ~c.UseAgent THEN ErrNoAuthWrapped
    ELSE "tunnel"

\* Configurations of a live tunnel, up to the bounds: the ones Create accepts
\* among those with any number of hops, tracking on or off, and a signer with
\* the default keepalive or the agent alone with keepalive switched off.
LiveConfigs ==
    { c \in { [ defaultConfig EXCEPT !.Hops = [k \in 1 .. n |-> HopOf(k)],
                                     !.Signers = a[1],
                                     !.UseAgent = a[2],
                                     !.KeepAlive = a[3],
                                     !.TrackConns = tr ] :
                n \in 0 .. MaxHops, tr \in BOOLEAN,
                a \in { << << "signer" >>, FALSE, 30 >>, << << >>, TRUE, 0 >>,
                        << << >>, FALSE, 30 >> } } :
        CreateCheck(c) = "tunnel" }

\* ------------------------------------------------------------------ objects
Sessions == sessOpen \cup sessClosed
Conns == connOpen \cup connClosed
Lns == lnOpen \cup lnClosed

\* A session is <<"sess", hop index, chain number>>; the chain number is the
\* number of first-hop sessions created so far, so the sessions of one chain
\* share it.
HopOfSess(s) == s[2]
ChainOf(s) == s[3]

NewSession(i) ==
    << "sess", i,
       IF i = 0 THEN Cardinality({s \in Sessions : HopOfSess(s) = 0}) + 1
                ELSE ChainOf(clients[1]) >>

\* The session of hop i travels inside the sessions of hops 0 .. i-1 of its
\* chain: it can carry traffic only while none of them was closed.
Alive(s) == \A j \in 0 .. HopOfSess(s) : << "sess", j, ChainOf(s) >> \in sessOpen

NewConn == << "conn", Cardinality(Conns) + 1 >>
NewLocalConn == << "tcp", Cardinality(Conns) + 1 >>
NewLn(kind) == << kind, Cardinality(Lns) + 1 >>

\* ------------------------------------------------------------------ helpers
\* The value a public operation hands back: <<"ret", goroutine, operation,
\* error or "ok"/"nil", connection or listener>>.
Ret(p, o, v, x) == << "ret", p, o, v, x >>

\* The call o of goroutine p returns v (and the object x): its locals die.
\* A forward handler (lc[p] set) goes on in serveForward's closure, with what
\* DialContext returned in its variables remote, err (res[p]).
Return(p, o, v, x) ==
    /\ pc' = [pc EXCEPT ![p] = IF lc[p] = None THEN "idle"
                               ELSE IF v = "ok" THEN "h_pipe" ELSE "h_fail"]
    /\ op' = [op EXCEPT ![p] = "none"]
    /\ hopIdx' = [hopIdx EXCEPT ![p] = 0]
    /\ res' = [res EXCEPT ![p] = IF lc[p] = None THEN None
                                 ELSE IF v = "ok" THEN x ELSE << v, 0 >>]
    /\ errs' = [errs EXCEPT ![p] = {}]
    /\ event' = Ret(p, o, v, x)

\* Goroutine p moves on to label l; nothing is returned.
Goto(p, l) ==
    /\ pc' = [pc EXCEPT ![p] = l]
    /\ event' = None

\* Where the caller of ensureChain continues when it returns nil.
AfterEnsure(o) ==
    CASE o = "Dial" -> "d_dial"
      [] o \in {"Listen", "ListenCtx"} -> "l_listen"
      [] o = "Forward" -> "f_listen"

\* ------------------------------------------------------------------ ensureChain
\* ensureChain entered without the test of the closed flag.
CallEnsure_NoClosedCheck(p, o) ==
    /\ created = "tunnel"
    /\ calls < MaxCalls
    /\ calls' = calls + 1
    /\ pc[p] = "idle"
    /\ Goto(p, "ec_lock")
    /\ op' = [op EXCEPT ![p] = o]
    /\ UNCHANGED << hopIdx, res, errs >>
    /\ UNCHANGED << tunnelVars, objVars, histVars, createVars >>
    /\ UNCHANGED auxVars

\* A goroutine enters DialContext, ListenContext or LocalForward (operation
\* o); the first statement it executes is that of ensureChain:
\*     if t.closed.Load() { return ErrClosed }
CallEnsure(p, o) ==
    /\ created = "tunnel"
    /\ calls < MaxCalls
    /\ calls' = calls + 1
    /\ pc[p] = "idle"
    /\ IF closed
       THEN Return(p, o, ErrClosed, None)
       ELSE /\ Goto(p, "ec_lock")
            /\ op' = [op EXCEPT ![p] = o]
            /\ UNCHANGED << hopIdx, res, errs >>
    /\ UNCHANGED << tunnelVars, objVars, histVars, createVars >>
    /\ UNCHANGED auxVars

\* An authMethods that never asks the agent.
authMethods_SignersOnly(c, agentUp) == IF Len(c.Signers) > 0 THEN 1 ELSE 0

\* Tunnel.authMethods: the number of methods it assembles.  agentUp says
\* whether SSH_AUTH_SOCK is set and the agent socket accepts the connection.
authMethods(c, agentUp) ==
    (IF Len(c.Signers) > 0 THEN 1 ELSE 0) + (IF c.UseAgent /\ agentUp THEN 1 ELSE 0)

\* ensureChain without the test of len(t.clients): every caller builds.
EnsureLock_Rebuild(p) ==
    /\ pc[p] = "ec_lock"
    /\ mu = NoOne
    /\ IF authMethods(cfg, agentSock) = 0
       THEN Return(p, op[p], ErrNoAuth, None) /\ UNCHANGED mu
       ELSE /\ mu' = p
            /\ hopIdx' = [hopIdx EXCEPT ![p] = 0]
            /\ Goto(p, "ec_hop")
            /\ UNCHANGED << op, res, errs >>
    /\ UNCHANGED << clients, closed, connTrack, listeners, objVars, histVars,
                    createVars, calls >>
    /\ UNCHANGED auxVars

\* t.mu.Lock(); if len(t.clients) > 0 { return nil }; authMethods() and its
\* error return.  A return releases the mutex (deferred Unlock).
EnsureLock(p) ==
    /\ pc[p] = "ec_lock"
    /\ mu = NoOne
    /\ IF Len(clients) > 0
       THEN /\ Goto(p, AfterEnsure(op[p]))
            /\ UNCHANGED << op, hopIdx, res, errs, mu >>
       ELSE IF authMethods(cfg, agentSock) = 0
            THEN Return(p, op[p], ErrNoAuth, None) /\ UNCHANGED mu
            ELSE /\ mu' = p
                 /\ hopIdx' = [hopIdx EXCEPT ![p] = 0]
                 /\ Goto(p, "ec_hop")
                 /\ UNCHANGED << op, res, errs >>
    /\ UNCHANGED << clients, closed, connTrack, listeners, objVars, histVars,
                    createVars, calls >>
    /\ UNCHANGED auxVars

\* prevClient of the hop loop: the session appended by the previous iteration.
prevClient(p) == clients[hopIdx[p]]

\* What the connection of hop i is dialed through: nothing for i == 0
\* (dialer.DialContext), the previous hop's session for i > 0 (prevClient.Dial).
Direct == << "direct" >>
Underlay_AlwaysDirect(p) == Direct
Underlay(p) == IF hopIdx[p] = 0 THEN Direct ELSE prevClient(p)

\* What one iteration of the hop loop can end in: resolveHostKeyCallback may
\* fail, then the dial of the underlay (dialer.DialContext for i == 0,
\* prevClient.Dial for i > 0), then ssh.NewClientConn.  Beyond the dial the
\* previous hop's session must be carrying traffic.
HopOutcomes(p) ==
    {"ErrHostKey", "ErrHopDial"} \cup
    (IF hopIdx[p] = 0 THEN {"ErrHandshake", "ok"}
     ELSE IF Alive(prevClient(p)) THEN {"ErrHandshake", "ok"} ELSE {})

\* One iteration of the hop loop of ensureChain.  An error is returned as it
\* is: t.clients keeps the sessions appended so far and they stay open (on a
\* handshake error the underlay alone is closed).  On success the session is
\* appended, its keepAlive is started when cfg.KeepAlive > 0, and the loop
\* goes on or ensureChain returns nil.
EnsureHop(p) ==
    /\ pc[p] = "ec_hop"
    /\ mu = p
    /\ \E out \in HopOutcomes(p) :
         IF out = "ok"
         THEN LET client == NewSession(hopIdx[p]) IN
              /\ sessOpen' = sessOpen \cup {client}
              /\ clients' = Append(clients, client)
              /\ underlay' = underlay \cup {<< client, Underlay(p) >>}
              /\ keepAlives' = IF cfg.KeepAlive > 0 THEN keepAlives \cup {client}
                                                    ELSE keepAlives
              /\ IF hopIdx[p] + 1 = Len(cfg.Hops)
                 THEN /\ mu' = NoOne
                      /\ Goto(p, AfterEnsure(op[p]))
                      /\ UNCHANGED hopIdx
                 ELSE /\ hopIdx' = [hopIdx EXCEPT ![p] = @ + 1]
                      /\ Goto(p, "ec_hop")
                      /\ UNCHANGED mu
              /\ UNCHANGED << op, res, errs, buildFailed >>
         ELSE /\ Return(p, op[p], out, None)
              /\ mu' = NoOne
              /\ buildFailed' = TRUE
              /\ UNCHANGED << sessOpen, clients, keepAlives, underlay >>
    /\ UNCHANGED << closed, connTrack, listeners, sessClosed, connOpen,
                    connClosed, lnOpen, lnClosed, onceRun, onceDone, serving,
                    tunnelClosed, tornDown, crashed, createVars, calls >>
    /\ UNCHANGED << ctxVars, fwdVars, hk, agentSock, ph, tornResult >>

\* t.clients[len(t.clients)-1] panics on an empty slice and the process dies.
Panic(p) ==
    /\ crashed' = TRUE
    /\ event' = << "panic", p >>
    /\ UNCHANGED << pc, op, hopIdx, res, errs, tunnelVars, objVars,
                    tunnelClosed, buildFailed, tornDown, createVars, calls,
                    fwdConns >>

\* ------------------------------------------------------------------ keepAlive
\* What c.SendRequest("keepalive@openssh.com", true, nil) can come back with:
\* "ok" (reply true, err nil), "refused" (reply false, err nil: the hop
\* answered with a request failure), "err" (err non-nil: the request could not
\* be sent or the connection went away before the reply).  A session that was
\* closed, or whose carrying sessions were closed, can only give "err"; a
\* link can also die under an open session.
KeepAliveReplies(s) == IF Alive(s) THEN {"ok", "refused", "err"} ELSE {"err"}

\* One tick of the keepAlive loop of session s: the request, and the return
\* when err != nil.  The reply value is discarded.
KeepAliveTick(s) ==
    /\ s \in keepAlives
    /\ \E r \in KeepAliveReplies(s) :
         /\ event' = << "keepalive", s, r >>
         /\ keepAlives' = IF r = "err" THEN keepAlives \ {s} ELSE keepAlives
    /\ UNCHANGED << pc, op, hopIdx, res, errs, tunnelVars, sessOpen, sessClosed,
                    connOpen, connClosed, lnOpen, lnClosed, onceRun, onceDone,
                    serving, histVars, createVars, calls, auxVars >>

\* ------------------------------------------------------------------ DialContext
\* An error return that throws the session list away.
RemoteFailure_DropsChain(p, e) ==
    /\ Return(p, op[p], e, None)
    /\ clients' = << >>
    /\ UNCHANGED << closed, mu, connTrack, listeners >>

\* if err != nil { return nil, fmt.Errorf("dial remote ...: %w", err) } and
\* its like in ListenContext: the wrapped error is returned, nothing else.
RemoteFailure(p, e) ==
    /\ Return(p, op[p], e, None)
    /\ UNCHANGED tunnelVars

\* last := t.clients[len(t.clients)-1]; conn, err := last.Dial(network, addr)
\* (no lock held).
DialRemote(p) ==
    /\ pc[p] = "d_dial"
    /\ IF Len(clients) = 0
       THEN Panic(p)
       ELSE /\ \E ok \in BOOLEAN :
                 IF ok
                 THEN /\ Alive(clients[Len(clients)])
                      /\ connOpen' = connOpen \cup {NewConn}
                      /\ res' = [res EXCEPT ![p] = NewConn]
                      /\ fwdConns' = IF lc[p] # None THEN fwdConns \cup {NewConn}
                                                      ELSE fwdConns
                      /\ Goto(p, "d_track")
                      /\ UNCHANGED << op, hopIdx, errs, tunnelVars >>
                 ELSE /\ RemoteFailure(p, "ErrDialRemote")
                      /\ UNCHANGED << connOpen, fwdConns >>
            /\ UNCHANGED << sessOpen, sessClosed, connClosed, lnOpen,
                            lnClosed, onceRun, onceDone, serving, keepAlives,
                            histVars, createVars, calls >>
    /\ UNCHANGED << underlay, ctxVars, accepted, lc, copied, halfClosed, hk,
                    agentSock, ph,
                    tornResult >>

\* A track that registers the connection whatever the configuration says.
track_Always(c) ==
    /\ mu = NoOne
    /\ connTrack' = connTrack \cup {c}

\* Tunnel.track: with tracking off the raw connection is handed out; with
\* tracking on it is registered under t.mu and wrapped in a trackedConn.
track(c) ==
    IF cfg.TrackConns
    THEN /\ mu = NoOne
         /\ connTrack' = connTrack \cup {c}
    ELSE UNCHANGED connTrack

\* return t.track(conn), nil
DialTrack(p) ==
    /\ pc[p] = "d_track"
    /\ track(res[p])
    /\ Return(p, op[p], "ok", res[p])
    /\ UNCHANGED << clients, closed, mu, listeners, objVars, histVars,
                    createVars, calls >>
    /\ UNCHANGED auxVars

\* ------------------------------------------------------------------ ListenContext
\* last := t.clients[len(t.clients)-1]; ln, err := last.Listen(network, laddr)
\* (no lock held).
ListenRemote(p) ==
    /\ pc[p] = "l_listen"
    /\ IF Len(clients) = 0
       THEN Panic(p)
       ELSE /\ \E ok \in BOOLEAN :
                 IF ok
                 THEN /\ Alive(clients[Len(clients)])
                      /\ lnOpen' = lnOpen \cup {NewLn("remote")}
                      /\ res' = [res EXCEPT ![p] = NewLn("remote")]
                      /\ Goto(p, "l_track")
                      /\ UNCHANGED << op, hopIdx, errs, tunnelVars >>
                 ELSE /\ RemoteFailure(p, "ErrListenRemote")
                      /\ UNCHANGED lnOpen
            /\ UNCHANGED << sessOpen, sessClosed, connOpen,
                            connClosed, lnClosed, onceRun, onceDone, serving,
                            keepAlives, histVars, createVars, calls >>
    /\ UNCHANGED auxVars

\* Tunnel.trackListener: register the listener under t.mu.
trackListener(ln) ==
    /\ mu = NoOne
    /\ listeners' = listeners \cup {ln}

\* t.trackListener(ln); go func() { <-ctx.Done(); ln.Close() }(); return ln, nil.
\* Listen passes the background context, which is never cancelled; the ctx of
\* a ListenContext call (operation "ListenCtx") may be cancelled already.
ListenTrack(p) ==
    /\ pc[p] = "l_track"
    /\ trackListener(res[p])
    /\ watchers' = watchers \cup {res[p]}
    /\ IF op[p] = "ListenCtx"
       THEN \E done \in BOOLEAN :
              /\ ctxDone' = IF done THEN ctxDone \cup {res[p]} ELSE ctxDone
              /\ ctxLive' = IF done THEN ctxLive ELSE ctxLive \cup {res[p]}
       ELSE UNCHANGED << ctxLive, ctxDone >>
    /\ Return(p, op[p], "ok", res[p])
    /\ UNCHANGED << clients, closed, mu, connTrack, objVars, histVars,
                    createVars, calls >>
    /\ UNCHANGED << underlay, fwdVars, hk, agentSock, ph, tornResult >>

\* The caller cancels the ctx it passed to ListenContext or LocalForward.
\* Inside the tunnel a ctx is used by the watcher of ListenContext and by
\* dialer.DialContext for hop 0, which HopOutcomes lets fail at any time.
CtxCancel(ln) ==
    /\ ln \in ctxLive
    /\ ctxLive' = ctxLive \ {ln}
    /\ ctxDone' = ctxDone \cup {ln}
    /\ event' = None
    /\ UNCHANGED << pc, op, hopIdx, res, errs, tunnelVars, objVars, histVars,
                    createVars, calls, watchers, underlay, fwdVars, hk, agentSock, ph,
                    tornResult >>

\* The watcher without the wait for ctx.Done().
WatcherClose_NoWait(ln) ==
    /\ ln \in watchers
    /\ lnOpen' = lnOpen \ {ln}
    /\ lnClosed' = lnClosed \cup {ln}
    /\ watchers' = watchers \ {ln}
    /\ event' = None
    /\ UNCHANGED << pc, op, hopIdx, res, errs, tunnelVars, sessOpen, sessClosed,
                    connOpen, connClosed, onceRun, onceDone, serving, keepAlives,
                    histVars, createVars, calls, ctxLive, ctxDone, underlay,
                    fwdVars, hk, agentSock, ph, tornResult >>

\* go func() { <-ctx.Done(); _ = ln.Close() }(): the watcher of ln wakes up
\* once the ctx is done, closes the listener and ends.  It does not touch
\* t._listeners.
WatcherClose(ln) ==
    /\ ln \in watchers
    /\ ln \in ctxDone
    /\ lnOpen' = lnOpen \ {ln}
    /\ lnClosed' = lnClosed \cup {ln}
    /\ watchers' = watchers \ {ln}
    /\ event' = None
    /\ UNCHANGED << pc, op, hopIdx, res, errs, tunnelVars, sessOpen, sessClosed,
                    connOpen, connClosed, onceRun, onceDone, serving, keepAlives,
                    histVars, createVars, calls, ctxLive, ctxDone, underlay,
                    fwdVars, hk, agentSock, ph, tornResult >>

\* ------------------------------------------------------------------ LocalForward
\* ln, err := net.Listen("tcp", laddr)
ForwardListen(p) ==
    /\ pc[p] = "f_listen"
    /\ \E ok \in BOOLEAN :
         IF ok
         THEN /\ lnOpen' = lnOpen \cup {NewLn("local")}
              /\ res' = [res EXCEPT ![p] = NewLn("local")]
              /\ Goto(p, "f_track")
              /\ UNCHANGED << op, hopIdx, errs >>
         ELSE /\ Return(p, op[p], "ErrListen", None)
              /\ UNCHANGED lnOpen
    /\ UNCHANGED << tunnelVars, sessOpen, sessClosed, connOpen, connClosed,
                    lnClosed, onceRun, onceDone, serving, keepAlives, histVars,
                    createVars, calls >>
    /\ UNCHANGED auxVars

\* t.trackListener(ln); go t.serveForward(ctx, ln, raddr); return ln, nil
\* The ctx of LocalForward goes to serveForward, which hands it to the
\* DialContext of each handler and never waits for it.
ForwardTrack(p) ==
    /\ pc[p] = "f_track"
    /\ trackListener(res[p])
    /\ serving' = serving \cup {res[p]}
    /\ ctxLive' = ctxLive \cup {res[p]}
    /\ Return(p, op[p], "ok", res[p])
    /\ UNCHANGED << clients, closed, mu, connTrack, sessOpen, sessClosed,
                    connOpen, connClosed, lnOpen, lnClosed, onceRun, onceDone,
                    keepAlives, histVars, createVars, calls >>
    /\ UNCHANGED << underlay, watchers, ctxDone, fwdVars, hk, agentSock, ph, tornResult >>

\* ------------------------------------------------------------------ serveForward
\* c, err := ln.Accept() on an open listener: a client has connected.
Accept(ln) ==
    /\ ln \in serving /\ ln \in lnOpen
    /\ \A a \in accepted : a[1] # ln
    /\ Cardinality({c \in Conns : c[1] = "tcp"}) < MaxAccepts
    /\ connOpen' = connOpen \cup {NewLocalConn}
    /\ accepted' = accepted \cup {<< ln, NewLocalConn >>}
    /\ fwdConns' = fwdConns \cup {NewLocalConn}
    /\ event' = None
    /\ UNCHANGED << pc, op, hopIdx, res, errs, tunnelVars, sessOpen, sessClosed,
                    connClosed, lnOpen, lnClosed, onceRun, onceDone, serving,
                    keepAlives, histVars, createVars, calls, underlay, ctxVars,
                    lc, copied, halfClosed, hk, agentSock, ph, tornResult >>

\* An accept loop that can give up on an open listener.
AcceptFail_Any(ln) ==
    /\ ln \in serving
    /\ \A a \in accepted : a[1] # ln
    /\ serving' = serving \ {ln}
    /\ event' = None
    /\ UNCHANGED << pc, op, hopIdx, res, errs, tunnelVars, sessOpen, sessClosed,
                    connOpen, connClosed, lnOpen, lnClosed, onceRun, onceDone,
                    keepAlives, histVars, createVars, calls, auxVars >>

\* ln.Accept() on a closed listener returns an error and serveForward returns.
AcceptFail(ln) ==
    /\ ln \in serving /\ ln \in lnClosed
    /\ \A a \in accepted : a[1] # ln
    /\ serving' = serving \ {ln}
    /\ event' = None
    /\ UNCHANGED << pc, op, hopIdx, res, errs, tunnelVars, sessOpen, sessClosed,
                    connOpen, connClosed, lnOpen, lnClosed, onceRun, onceDone,
                    keepAlives, histVars, createVars, calls, auxVars >>

\* c = t.track(c); go func(lc net.Conn) {...}(c): the handler is goroutine p.
AcceptTrack(ln, p) ==
    /\ pc[p] = "idle" /\ lc[p] = None
    /\ \E a \in accepted :
         /\ a[1] = ln
         /\ track(a[2])
         /\ accepted' = accepted \ {a}
         /\ lc' = [lc EXCEPT ![p] = a[2]]
    /\ Goto(p, "h_dial")
    /\ UNCHANGED << op, hopIdx, res, errs, clients, closed, mu, listeners, objVars,
                    histVars, createVars, calls, underlay, ctxVars, copied,
                    halfClosed, fwdConns, hk, agentSock, ph, tornResult >>

\* remote, err := t.DialContext(ctx, "tcp", raddr): the handler enters
\* ensureChain, whose first statement tests the closed flag.
HandlerDial(p) ==
    /\ pc[p] = "h_dial"
    /\ IF closed
       THEN Return(p, "Dial", ErrClosed, None)
       ELSE /\ Goto(p, "ec_lock")
            /\ op' = [op EXCEPT ![p] = "Dial"]
            /\ UNCHANGED << hopIdx, res, errs >>
    /\ UNCHANGED << tunnelVars, objVars, histVars, createVars, calls, auxVars >>

\* The handler that returns on a dial error without closing lc, and without
\* the deferred untrack.
HandlerFail_NoClose(p) ==
    /\ pc[p] = "h_fail"
    /\ lc' = [lc EXCEPT ![p] = None]
    /\ res' = [res EXCEPT ![p] = None]
    /\ Goto(p, "idle")
    /\ UNCHANGED << op, hopIdx, errs, tunnelVars, objVars, histVars,
                    createVars, calls, underlay, ctxVars, accepted, copied,
                    halfClosed, fwdConns, hk, agentSock, ph, tornResult >>

\* if err != nil { _ = lc.Close(); return }.  With tracking lc is the
\* trackedConn: once.Do closes the raw connection and calls onClose, which
\* waits for t.mu (OnClose); the handler goes on when it is through.  Without
\* tracking lc is the raw connection.  The deferred t.untrack(lc) closes lc
\* once more, which changes nothing, and the goroutine ends.
HandlerFail(p) ==
    /\ pc[p] = "h_fail"
    /\ connOpen' = connOpen \ {lc[p]}
    /\ connClosed' = connClosed \cup {lc[p]}
    /\ IF cfg.TrackConns
       THEN /\ onceRun' = onceRun \cup {lc[p]}
            /\ Goto(p, "h_unreg")
            /\ UNCHANGED << lc, res >>
       ELSE /\ lc' = [lc EXCEPT ![p] = None]
            /\ res' = [res EXCEPT ![p] = None]
            /\ Goto(p, "idle")
            /\ UNCHANGED onceRun
    /\ UNCHANGED << op, hopIdx, errs, tunnelVars, sessOpen, sessClosed,
                    lnOpen, lnClosed, onceDone, serving, keepAlives, histVars,
                    createVars, calls, underlay, ctxVars, accepted, copied,
                    halfClosed, fwdConns, hk, agentSock, ph, tornResult >>

\* onClose of lc has returned; return; deferred t.untrack(lc).
HandlerDone(p) ==
    /\ pc[p] = "h_unreg"
    /\ lc[p] \in onceDone
    /\ lc' = [lc EXCEPT ![p] = None]
    /\ res' = [res EXCEPT ![p] = None]
    /\ Goto(p, "idle")
    /\ UNCHANGED << op, hopIdx, errs, tunnelVars, objVars, histVars,
                    createVars, calls, underlay, ctxVars, accepted, copied,
                    halfClosed, fwdConns, hk, agentSock, ph, tornResult >>

\* ------------------------------------------------------------------ pipe
\* x.(*net.TCPConn) succeeds for the connection a TCP listener accepted, as
\* long as it is not wrapped in a trackedConn; the connection last.Dial
\* returns is an SSH channel.
IsTCPConn(x) == x[1] = "tcp" /\ ~cfg.TrackConns

\* pipe(a, b) with a = lc, b = remote: direction 1 is io.Copy(a, b) and ends
\* with a.(*net.TCPConn).CloseWrite(), direction 2 is io.Copy(b, a) and ends
\* with b.(*net.TCPConn).CloseWrite().
PipeDest(p, d) == IF d = 1 THEN lc[p] ELSE res[p]

\* The goroutine of direction d: io.Copy returns (end of stream or error),
\* then the type assertion, which panics for anything but a *net.TCPConn,
\* then CloseWrite and wg.Done().
PipeCopyEnd(p, d) ==
    /\ pc[p] = "h_pipe"
    /\ d \notin copied[p]
    /\ IF IsTCPConn(PipeDest(p, d))
       THEN /\ halfClosed' = halfClosed \cup {PipeDest(p, d)}
            /\ copied' = [copied EXCEPT ![p] = @ \cup {d}]
            /\ event' = None
            /\ UNCHANGED crashed
       ELSE /\ crashed' = TRUE
            /\ event' = << "panic", p >>
            /\ UNCHANGED << halfClosed, copied >>
    /\ UNCHANGED << pc, op, hopIdx, res, errs, tunnelVars, objVars, tunnelClosed,
                    buildFailed, tornDown, createVars, calls, underlay, ctxVars,
                    accepted, lc, fwdConns, hk, agentSock, ph, tornResult >>

\* wg.Wait() returns; _ = a.Close(); _ = b.Close(); pipe returns and the
\* deferred untrack calls close both once more.
PipeClose(p) ==
    /\ pc[p] = "h_pipe"
    /\ copied[p] = {1, 2}
    /\ connOpen' = connOpen \ {lc[p], res[p]}
    /\ connClosed' = connClosed \cup {lc[p], res[p]}
    /\ onceRun' = IF cfg.TrackConns THEN onceRun \cup ({lc[p], res[p]} \ onceDone)
                                    ELSE onceRun
    /\ lc' = [lc EXCEPT ![p] = None]
    /\ res' = [res EXCEPT ![p] = None]
    /\ copied' = [copied EXCEPT ![p] = {}]
    /\ Goto(p, "idle")
    /\ UNCHANGED << op, hopIdx, errs, tunnelVars, sessOpen, sessClosed, lnOpen,
                    lnClosed, onceDone, serving, keepAlives, histVars, createVars,
                    calls, underlay, ctxVars, accepted, halfClosed, fwdConns, hk,
                    agentSock, ph,
                    tornResult >>

\* ------------------------------------------------------------------ Close
\* Close that reads the flag with Load and never sets it.
CallClose_LoadOnly(p) ==
    /\ created = "tunnel"
    /\ calls < MaxCalls
    /\ calls' = calls + 1
    /\ pc[p] = "idle"
    /\ IF closed
       THEN Return(p, "Close", "nil", None)
       ELSE /\ Goto(p, "c_lock")
            /\ op' = [op EXCEPT ![p] = "Close"]
            /\ UNCHANGED << hopIdx, res, errs >>
    /\ UNCHANGED << clients, closed, mu, connTrack, listeners, objVars, histVars,
                    createVars >>
    /\ UNCHANGED auxVars

\* Close that sets the flag but does not look at its previous value.
CallClose_NoSwapCheck(p) ==
    /\ created = "tunnel"
    /\ calls < MaxCalls
    /\ calls' = calls + 1
    /\ pc[p] = "idle"
    /\ closed' = TRUE
    /\ Goto(p, "c_lock")
    /\ op' = [op EXCEPT ![p] = "Close"]
    /\ UNCHANGED << hopIdx, res, errs >>
    /\ UNCHANGED << clients, mu, connTrack, listeners, objVars, histVars,
                    createVars >>
    /\ UNCHANGED auxVars

\* A goroutine enters Close:  if t.closed.Swap(true) { return nil }
CallClose(p) ==
    /\ created = "tunnel"
    /\ calls < MaxCalls
    /\ calls' = calls + 1
    /\ pc[p] = "idle"
    /\ closed' = TRUE
    /\ IF closed
       THEN Return(p, "Close", "nil", None)
       ELSE /\ Goto(p, "c_lock")
            /\ op' = [op EXCEPT ![p] = "Close"]
            /\ UNCHANGED << hopIdx, res, errs >>
    /\ UNCHANGED << clients, mu, connTrack, listeners, objVars, histVars,
                    createVars >>
    /\ UNCHANGED auxVars

\* The teardown with the connection loop ahead of the listener loop.
TeardownNext_ConnsFirst(lns, ct) ==
    IF cfg.TrackConns /\ ct # {} THEN "c_conn"
    ELSE IF lns # {} THEN "c_ln"
    ELSE IF Len(clients) > 0 THEN "c_sess"
    ELSE "c_clear"

\* The loop of the teardown that runs next, given the listeners and tracked
\* connections still to be closed: listeners, then tracked connections (only
\* if cfg.TrackConns), then hop sessions, then t.clients = nil.
TeardownNext(lns, ct) ==
    IF lns # {} THEN "c_ln"
    ELSE IF cfg.TrackConns /\ ct # {} THEN "c_conn"
    ELSE IF Len(clients) > 0 THEN "c_sess"
    ELSE "c_clear"

\* t.mu.Lock(); var errs []error.  hopIdx takes the initial value of the
\* session loop, len(t.clients) - 1: clients cannot change while p holds mu.
CloseLock(p) ==
    /\ pc[p] = "c_lock"
    /\ mu = NoOne
    /\ mu' = p
    /\ errs' = [errs EXCEPT ![p] = {}]
    /\ hopIdx' = [hopIdx EXCEPT ![p] = Len(clients) - 1]
    /\ tornDown' = tornDown + 1
    /\ Goto(p, TeardownNext(listeners, connTrack))
    /\ UNCHANGED << op, res, clients, closed, connTrack, listeners, objVars,
                    tunnelClosed, buildFailed, crashed, createVars, calls >>
    /\ UNCHANGED auxVars

\* What Close() of a listener can return: nil or an error for an open one,
\* net.ErrClosed or another error for one that was closed before.
LnCloseResults(ln) == IF ln \in lnOpen THEN {"nil", "err"} ELSE {ErrClosed, "err"}

\* The listener loop without the errors.Is(err, net.ErrClosed) exemption.
CollectsLn_AnyError(r) == r # "nil"

\* err != nil && !errors.Is(err, net.ErrClosed)
CollectsLn(r) == r # "nil" /\ r # ErrClosed

\* One iteration of: for ln := range t._listeners { ln.Close(); delete }
CloseListener(p) ==
    /\ pc[p] = "c_ln"
    /\ mu = p
    /\ \E ln \in listeners : \E r \in LnCloseResults(ln) :
         /\ lnOpen' = lnOpen \ {ln}
         /\ lnClosed' = lnClosed \cup {ln}
         /\ listeners' = listeners \ {ln}
         /\ errs' = [errs EXCEPT ![p] = IF CollectsLn(r) THEN @ \cup {ln} ELSE @]
         /\ tunnelClosed' = tunnelClosed \cup {ln}
         /\ pc' = [pc EXCEPT ![p] = TeardownNext(listeners', connTrack)]
         /\ event' = << "close", p, ln, r >>
    /\ UNCHANGED << op, hopIdx, res, clients, closed, mu, connTrack, sessOpen,
                    sessClosed, connOpen, connClosed, onceRun, onceDone, serving,
                    keepAlives, buildFailed, tornDown, crashed, createVars, calls >>
    /\ UNCHANGED auxVars

\* A connection loop that closes the trackedConn wrapper: its onClose asks
\* for t.mu, which the loop holds, and never returns.
CloseConn_Wrapper(p) ==
    /\ pc[p] = "c_conn"
    /\ mu = p
    /\ \E c \in connTrack :
         /\ connOpen' = connOpen \ {c}
         /\ connClosed' = connClosed \cup {c}
         /\ onceRun' = onceRun \cup {c}
         /\ tunnelClosed' = tunnelClosed \cup {c}
         /\ pc' = [pc EXCEPT ![p] = "c_stuck"]
         /\ event' = << "close", p, c, "nil" >>
    /\ UNCHANGED << op, hopIdx, res, errs, tunnelVars, sessOpen, sessClosed,
                    lnOpen, lnClosed, onceDone, serving, keepAlives, buildFailed,
                    tornDown, crashed, createVars, calls, auxVars >>

\* One iteration of: for c := range t.connTrack { _ = c.Close(); delete }
\* c is the raw connection, not its trackedConn wrapper; the error is dropped.
CloseConn(p) ==
    /\ pc[p] = "c_conn"
    /\ mu = p
    /\ \E c \in connTrack :
         /\ connOpen' = connOpen \ {c}
         /\ connClosed' = connClosed \cup {c}
         /\ connTrack' = connTrack \ {c}
         /\ tunnelClosed' = tunnelClosed \cup {c}
         /\ pc' = [pc EXCEPT ![p] = TeardownNext(listeners, connTrack')]
         /\ event' = << "close", p, c, "dropped" >>
    /\ UNCHANGED << op, hopIdx, res, errs, clients, closed, mu, listeners,
                    sessOpen, sessClosed, lnOpen, lnClosed, onceRun, onceDone,
                    serving, keepAlives, buildFailed, tornDown, crashed,
                    createVars, calls >>
    /\ UNCHANGED auxVars

\* One iteration of: for i := len(t.clients) - 1; i >= 0; i-- {
\*     if err := t.clients[i].Close(); err != nil { errs = append(...) } }
CloseSession(p) ==
    /\ pc[p] = "c_sess"
    /\ mu = p
    /\ \E r \in {"nil", "err"} :
         LET s == clients[hopIdx[p] + 1] IN
         /\ sessOpen' = sessOpen \ {s}
         /\ sessClosed' = sessClosed \cup {s}
         /\ errs' = [errs EXCEPT ![p] = IF r # "nil" THEN @ \cup {s} ELSE @]
         /\ tunnelClosed' = tunnelClosed \cup {s}
         /\ hopIdx' = [hopIdx EXCEPT ![p] = @ - 1]
         /\ pc' = [pc EXCEPT ![p] = IF hopIdx[p] - 1 >= 0 THEN "c_sess" ELSE "c_clear"]
         /\ event' = << "close", p, s, r >>
    /\ UNCHANGED << op, res, clients, closed, mu, connTrack, listeners, connOpen,
                    connClosed, lnOpen, lnClosed, onceRun, onceDone, serving,
                    keepAlives, buildFailed, tornDown, crashed, createVars, calls >>
    /\ UNCHANGED auxVars

\* t.clients = nil; return errors.Join(errs...)   (deferred t.mu.Unlock()).
\* The joined error is nil for an empty errs, and wraps its elements otherwise.
CloseClear(p) ==
    /\ pc[p] = "c_clear"
    /\ mu = p
    /\ clients' = << >>
    /\ mu' = NoOne
    /\ Return(p, op[p], IF errs[p] = {} THEN "nil" ELSE "ErrJoin", None)
    /\ tornResult' = IF errs[p] = {} THEN "nil" ELSE "ErrJoin"
    /\ UNCHANGED << closed, connTrack, listeners, objVars, histVars, createVars, calls >>
    /\ UNCHANGED << underlay, ctxVars, fwdVars, hk, agentSock, ph >>

\* ------------------------------------------------------------------ callers
\* A connection or listener is in its creator's hands until the call returns.
InFlight(x) == \E p \in Procs : res[p] = x

\* The caller of Listen or LocalForward closes the listener it was given.
UserCloseListener(ln) ==
    /\ ln \in lnOpen /\ ~InFlight(ln)
    /\ lnOpen' = lnOpen \ {ln}
    /\ lnClosed' = lnClosed \cup {ln}
    /\ event' = None
    /\ UNCHANGED << pc, op, hopIdx, res, errs, tunnelVars, sessOpen, sessClosed,
                    connOpen, connClosed, onceRun, onceDone, serving, keepAlives,
                    histVars, createVars, calls >>
    /\ UNCHANGED auxVars

\* The caller of Dial closes the connection it was given (the connections of
\* LocalForward are never given to the caller).  With tracking on
\* this is trackedConn.Close up to the call of onClose: once.Do is entered by
\* the first caller only, and it closes the raw connection.  With tracking
\* off it is the raw connection's Close.
UserCloseConn(c) ==
    /\ c \in Conns /\ ~InFlight(c) /\ c \notin fwdConns
    /\ IF cfg.TrackConns
       THEN /\ c \notin onceRun \cup onceDone
            /\ onceRun' = onceRun \cup {c}
       ELSE /\ c \in connOpen
            /\ UNCHANGED onceRun
    /\ connOpen' = connOpen \ {c}
    /\ connClosed' = connClosed \cup {c}
    /\ event' = None
    /\ UNCHANGED << pc, op, hopIdx, res, errs, tunnelVars, sessOpen, sessClosed,
                    lnOpen, lnClosed, onceDone, serving, keepAlives, histVars,
                    createVars, calls >>
    /\ UNCHANGED auxVars

\* onClose of a trackedConn: t.mu.Lock(); delete(t.connTrack, conn); Unlock.
\* An onClose that does not delete the connection from the tracker.
OnClose_NoDelete(c) ==
    /\ c \in onceRun
    /\ onceRun' = onceRun \ {c}
    /\ onceDone' = onceDone \cup {c}
    /\ event' = None
    /\ UNCHANGED << pc, op, hopIdx, res, errs, tunnelVars, sessOpen, sessClosed,
                    connOpen, connClosed, lnOpen, lnClosed, serving, keepAlives,
                    histVars, createVars, calls, auxVars >>

OnClose(c) ==
    /\ c \in onceRun
    /\ mu = NoOne
    /\ connTrack' = connTrack \ {c}
    /\ onceRun' = onceRun \ {c}
    /\ onceDone' = onceDone \cup {c}
    /\ event' = None
    /\ UNCHANGED << pc, op, hopIdx, res, errs, clients, closed, mu, listeners,
                    sessOpen, sessClosed, connOpen, connClosed, lnOpen, lnClosed,
                    serving, keepAlives, histVars, createVars, calls >>
    /\ UNCHANGED auxVars

\* ------------------------------------------------------------------ environment
\* The agent matters to a tunnel only with UseAgent: authMethods does not
\* look at SSH_AUTH_SOCK otherwise.
AgentStates(c) == IF c.UseAgent THEN BOOLEAN ELSE {FALSE}

\* The agent starts or stops, or SSH_AUTH_SOCK is set or unset.  Spec lets
\* this happen at any time; the other specifications keep the agent as it is
\* at the start.
AgentFlip ==
    /\ cfg.UseAgent
    /\ agentSock' = ~agentSock
    /\ event' = None
    /\ UNCHANGED << pc, op, hopIdx, res, errs, tunnelVars, objVars, histVars,
                    createVars, calls, underlay, ctxVars, fwdVars, hk, ph, tornResult >>

\* ------------------------------------------------------------------ Create
\* Everything Create leaves for later: no session, nothing tracked, no
\* goroutine running.
Fresh ==
    /\ clients = << >>
    /\ closed = FALSE
    /\ mu = NoOne
    /\ connTrack = {}
    /\ listeners = {}
    /\ sessOpen = {} /\ sessClosed = {}
    /\ connOpen = {} /\ connClosed = {}
    /\ lnOpen = {} /\ lnClosed = {}
    /\ onceRun = {} /\ onceDone = {}
    /\ serving = {}
    /\ keepAlives = {}
    /\ pc = [p \in Procs |-> "idle"]
    /\ op = [p \in Procs |-> "none"]
    /\ hopIdx = [p \in Procs |-> 0]
    /\ res = [p \in Procs |-> None]
    /\ errs = [p \in Procs |-> {}]
    /\ event = None
    /\ tunnelClosed = {}
    /\ buildFailed = FALSE
    /\ tornDown = 0
    /\ crashed = FALSE
    /\ calls = 0
    /\ underlay = {}
    /\ watchers = {} /\ ctxLive = {} /\ ctxDone = {}
    /\ accepted = {}
    /\ lc = [p \in Procs |-> None]
    /\ copied = [p \in Procs |-> {}]
    /\ halfClosed = {}
    /\ fwdConns = {}
    /\ tornResult = "none"
    /\ ph = None

\* One iteration of: for _, opt := range opts { if err := opt(&cfg) ... }
CreateOption ==
    /\ created = "pending"
    /\ opts # << >>
    /\ LET r == ApplyOption(cfg, Head(opts), osUser) IN
         /\ cfg' = r.cfg
         /\ IF r.err # "nil"
            THEN created' = r.err /\ UNCHANGED opts
            ELSE opts' = Tail(opts) /\ UNCHANGED created
    /\ UNCHANGED << tunnelVars, objVars, histVars, pc, op, hopIdx, res, errs,
                    event, calls, osUser >>
    /\ UNCHANGED auxVars

\* The checks after the loop and the construction of the Tunnel.
CreateFinish ==
    /\ created = "pending"
    /\ opts = << >>
    /\ created' = CreateCheck(cfg)
    /\ UNCHANGED << tunnelVars, objVars, histVars, pc, op, hopIdx, res, errs,
                    event, calls, osUser, cfg, opts >>
    /\ UNCHANGED auxVars

\* All option lists of length at most n.
OptionLists(n) == UNION { [1 .. k -> Options] : k \in 0 .. n }

\* Create is called with any list of at most MaxOpts options.
InitCreate ==
    /\ cfg = defaultConfig
    /\ opts \in OptionLists(MaxOpts)
    /\ osUser \in { << >>, << "r" >> }
    /\ created = "pending"
    /\ hk = None
    /\ agentSock = FALSE
    /\ Fresh

NextCreate == CreateOption \/ CreateFinish

SpecCreate == InitCreate /\ [][NextCreate]_vars

\* ------------------------------------------------------------------ host keys
\* defaultKnownHostsPath: os.UserHomeDir() gives dir (<< >> when it fails),
\* os.Getenv("HOME") gives env.
KnownHostsSuffix == << "/.ssh/known_hosts" >>
defaultKnownHostsPath(dir, env) ==
    IF dir # << >> THEN [err |-> "nil", path |-> dir \o KnownHostsSuffix]
    ELSE IF env # << >> THEN [err |-> "nil", path |-> env \o KnownHostsSuffix]
    ELSE [err |-> "ErrHomeDir", path |-> << >>]

\* knownhosts.New(path): a callback backed by the file, or an error when the
\* file cannot be read (readable is the set of files that can).
knownhostsNew(path, readable, level) ==
    IF path \in readable
    THEN [err |-> "nil", level |-> level, cb |-> << "file", path >>]
    ELSE [err |-> "ErrKnownHosts", level |-> level, cb |-> << >>]

\* resolveHostKeyCallback with the global callback ahead of the hop's file.
resolveHostKeyCallback_GlobalFirst(h, c, dir, env, readable) ==
    IF h.HostKeyCallback # "nil"
    THEN [err |-> "nil", level |-> 1, cb |-> << "func", h.HostKeyCallback >>]
    ELSE IF c.HostKeyCB # "nil"
    THEN [err |-> "nil", level |-> 3, cb |-> << "func", c.HostKeyCB >>]
    ELSE IF h.KnownHostsPath # << >>
    THEN knownhostsNew(h.KnownHostsPath, readable, 2)
    ELSE IF c.KnownHostsPath # << >>
    THEN knownhostsNew(c.KnownHostsPath, readable, 4)
    ELSE IF defaultKnownHostsPath(dir, env).err # "nil"
    THEN [err |-> defaultKnownHostsPath(dir, env).err, level |-> 5, cb |-> << >>]
    ELSE knownhostsNew(defaultKnownHostsPath(dir, env).path, readable, 5)

\* Tunnel.resolveHostKeyCallback: [err, level, cb], level being the number
\* of the if statement that produced the result.
resolveHostKeyCallback(h, c, dir, env, readable) ==
    IF h.HostKeyCallback # "nil"
    THEN [err |-> "nil", level |-> 1, cb |-> << "func", h.HostKeyCallback >>]
    ELSE IF h.KnownHostsPath # << >>
    THEN knownhostsNew(h.KnownHostsPath, readable, 2)
    ELSE IF c.HostKeyCB # "nil"
    THEN [err |-> "nil", level |-> 3, cb |-> << "func", c.HostKeyCB >>]
    ELSE IF c.KnownHostsPath # << >>
    THEN knownhostsNew(c.KnownHostsPath, readable, 4)
    ELSE IF defaultKnownHostsPath(dir, env).err # "nil"
    THEN [err |-> defaultKnownHostsPath(dir, env).err, level |-> 5, cb |-> << >>]
    ELSE knownhostsNew(defaultKnownHostsPath(dir, env).path, readable, 5)

\* The files and directories of the environment.
HopFile == << "h", "f" >>
GlobalFile == << "k", "h" >>
HomeDir == << "/", "r" >>
EnvHome == << "/", "e" >>
KnownHostsFiles ==
    { HopFile, GlobalFile, HomeDir \o KnownHostsSuffix, EnvHome \o KnownHostsSuffix }

\* The iteration of the hop loop for hop hk.i, up to the error return:
\*     hkcb, err := t.resolveHostKeyCallback(hop)
\*     if err != nil { return fmt.Errorf("hop %d known_hosts: %w", i, err) }
HostKeyResolve ==
    /\ hk # None
    /\ hk.out = None
    /\ LET r == resolveHostKeyCallback(cfg.Hops[hk.i + 1], cfg, hk.dir, hk.env,
                                        hk.readable)
       IN hk' = [hk EXCEPT !.out =
                    IF r.err # "nil"
                    THEN << "abort", << "hop known_hosts", hk.i, r.err >> >>
                    ELSE << "hkcb", r >>]
    /\ UNCHANGED << tunnelVars, objVars, histVars, createVars, pc, op, hopIdx, res,
                    errs, event, calls, underlay, ctxVars, fwdVars, tornResult,
                    agentSock, ph >>

\* A tunnel whose hop hk.i carries any combination of host-key settings, in
\* any environment.
InitHostKey ==
    /\ \E i \in 0 .. MaxHops - 1 :
       \E hcb \in {"nil", "hopcb"}, hpath \in {<< >>, HopFile},
          gcb \in {"nil", "cb"}, gpath \in {<< >>, GlobalFile},
          dir \in {<< >>, HomeDir}, env \in {<< >>, EnvHome},
          readable \in SUBSET KnownHostsFiles :
         /\ cfg = [ defaultConfig EXCEPT
                      !.Hops = [k \in 1 .. i + 1 |->
                                  IF k <= i THEN HopOf(k)
                                  ELSE [ HopOf(k) EXCEPT !.HostKeyCallback = hcb,
                                                         !.KnownHostsPath = hpath ]],
                      !.Signers = << "signer" >>,
                      !.HostKeyCB = gcb,
                      !.KnownHostsPath = gpath ]
         /\ hk = [ i |-> i, dir |-> dir, env |-> env, readable |-> readable,
                   out |-> None ]
    /\ opts = << >>
    /\ osUser = << "r" >>
    /\ created = "tunnel"
    /\ agentSock = FALSE
    /\ Fresh

NextHostKey == HostKeyResolve

SpecHostKey == InitHostKey /\ [][NextHostKey]_vars

\* ------------------------------------------------------------------ ParseHops
\* The characters of a hop string: a letter, the user separator and the port
\* separator.
SpecChars == {"a", "@", ":"}
SpecStrings == UNION { [1 .. n -> SpecChars] : n \in 0 .. MaxSpecLen }
SpecLists == UNION { [1 .. n -> SpecStrings] : n \in 0 .. MaxSpecs }

\* ParseHops with the empty-string test left out.
ParseHopsIter_NoSkip ==
    /\ ph # None
    /\ ph.pc = "loop"
    /\ ph.i < Len(ph.hops)
    /\ LET r == ParseHop(ph.hops[ph.i + 1], osUser)
       IN ph' = IF r.err # "nil"
                THEN [ph EXCEPT !.out = << >>, !.err = r.err, !.pc = "done"]
                ELSE [ph EXCEPT !.out = Append(@, r.hop), !.i = @ + 1]
    /\ UNCHANGED << tunnelVars, objVars, histVars, createVars, pc, op, hopIdx, res,
                    errs, event, calls, underlay, ctxVars, fwdVars, hk, tornResult,
                    agentSock >>

\* One iteration of the loop of ParseHops over hops[ph.i + 1]:
\*     if s == "" { continue }
\*     h, err := ParseHop(s)
\*     if err != nil { return nil, err }
\*     out = append(out, h)
ParseHopsIter ==
    /\ ph # None
    /\ ph.pc = "loop"
    /\ ph.i < Len(ph.hops)
    /\ LET s == ph.hops[ph.i + 1]
           r == ParseHop(s, osUser)
       IN ph' = IF s = << >> THEN [ph EXCEPT !.i = @ + 1]
                ELSE IF r.err # "nil"
                THEN [ph EXCEPT !.out = << >>, !.err = r.err, !.pc = "done"]
                ELSE [ph EXCEPT !.out = Append(@, r.hop), !.i = @ + 1]
    /\ UNCHANGED << tunnelVars, objVars, histVars, createVars, pc, op, hopIdx, res,
                    errs, event, calls, underlay, ctxVars, fwdVars, hk, tornResult,
                    agentSock >>

\* The end of the loop: return out, nil.
ParseHopsReturn ==
    /\ ph # None
    /\ ph.pc = "loop"
    /\ ph.i = Len(ph.hops)
    /\ ph' = [ph EXCEPT !.pc = "done"]
    /\ UNCHANGED << tunnelVars, objVars, histVars, createVars, pc, op, hopIdx, res,
                    errs, event, calls, underlay, ctxVars, fwdVars, hk, tornResult,
                    agentSock >>

\* A call of ParseHops with any list of hop strings, in a process whose
\* current user can or cannot be looked up; out is make([]Hop, 0, len(hops)).
InitParse ==
    /\ \E hops \in SpecLists :
         ph = [ hops |-> hops, i |-> 0, out |-> << >>, err |-> "nil", pc |-> "loop" ]
    /\ osUser \in { << >>, << "r" >> }
    /\ cfg = defaultConfig
    /\ opts = << >>
    /\ created = "pending"
    /\ hk = None
    /\ agentSock = FALSE
    /\ clients = << >>
    /\ closed = FALSE
    /\ mu = NoOne
    /\ connTrack = {}
    /\ listeners = {}
    /\ sessOpen = {} /\ sessClosed = {}
    /\ connOpen = {} /\ connClosed = {}
    /\ lnOpen = {} /\ lnClosed = {}
    /\ onceRun = {} /\ onceDone = {}
    /\ serving = {}
    /\ keepAlives = {}
    /\ pc = [p \in Procs |-> "idle"]
    /\ op = [p \in Procs |-> "none"]
    /\ hopIdx = [p \in Procs |-> 0]
    /\ res = [p \in Procs |-> None]
    /\ errs = [p \in Procs |-> {}]
    /\ event = None
    /\ tunnelClosed = {}
    /\ buildFailed = FALSE
    /\ tornDown = 0
    /\ crashed = FALSE
    /\ calls = 0
    /\ underlay = {}
    /\ watchers = {} /\ ctxLive = {} /\ ctxDone = {}
    /\ accepted = {}
    /\ lc = [p \in Procs |-> None]
    /\ copied = [p \in Procs |-> {}]
    /\ halfClosed = {}
    /\ fwdConns = {}
    /\ tornResult = "none"

NextParse == ParseHopsIter \/ ParseHopsReturn

SpecParse == InitParse /\ [][NextParse]_vars

\* ------------------------------------------------------------------ system
\* The state Create leaves behind for a configuration it accepts.
Init ==
    /\ cfg \in LiveConfigs
    /\ opts = << >>
    /\ osUser = << "r" >>
    /\ created = "tunnel"
    /\ hk = None
    /\ agentSock \in AgentStates(cfg)
    /\ Fresh

Step ==
    \/ \E p \in Procs : \E o \in {"Dial", "Listen", "Forward"} : CallEnsure(p, o)
    \/ \E p \in Procs : EnsureLock(p)
    \/ \E p \in Procs : EnsureHop(p)
    \/ \E p \in Procs : DialRemote(p)
    \/ \E p \in Procs : DialTrack(p)
    \/ \E p \in Procs : ListenRemote(p)
    \/ \E p \in Procs : ListenTrack(p)
    \/ \E p \in Procs : ForwardListen(p)
    \/ \E p \in Procs : ForwardTrack(p)
    \/ \E p \in Procs : CallClose(p)
    \/ \E p \in Procs : CloseLock(p)
    \/ \E p \in Procs : CloseListener(p)
    \/ \E p \in Procs : CloseConn(p)
    \/ \E p \in Procs : CloseSession(p)
    \/ \E p \in Procs : CloseClear(p)
    \/ \E ln \in Lns : UserCloseListener(ln)
    \/ \E c \in Conns : UserCloseConn(c)
    \/ \E c \in Conns : OnClose(c)
    \/ AgentFlip

\* A panic ends the process: no goroutine takes another step.
Next == ~crashed /\ Step

Spec == Init /\ [][Next]_vars

\* ListenContext with its ctx watcher, and Close.
RemoteLns == { << "remote", n >> : n \in 1 .. MaxCalls }

StepListen ==
    \/ \E p \in Procs : \E o \in {"Listen", "ListenCtx"} : CallEnsure(p, o)
    \/ \E p \in Procs : EnsureLock(p)
    \/ \E p \in Procs : EnsureHop(p)
    \/ \E p \in Procs : ListenRemote(p)
    \/ \E p \in Procs : ListenTrack(p)
    \/ \E ln \in RemoteLns : CtxCancel(ln)
    \/ \E ln \in RemoteLns : WatcherClose(ln)
    \/ \E p \in Procs : CallClose(p)
    \/ \E p \in Procs : CloseLock(p)
    \/ \E p \in Procs : CloseListener(p)
    \/ \E p \in Procs : CloseSession(p)
    \/ \E p \in Procs : CloseClear(p)
    \/ \E ln \in Lns : UserCloseListener(ln)

NextListen == ~crashed /\ StepListen

SpecListen == Init /\ [][NextListen]_vars

\* The Go scheduler runs a watcher whose ctx is done.
SpecListenFair ==
    SpecListen /\ \A ln \in RemoteLns : WF_vars(~crashed /\ WatcherClose(ln))

\* The keepAlive loops of the sessions Dial builds, and Close.
StepKeep ==
    \/ \E p \in Procs : CallEnsure(p, "Dial")
    \/ \E p \in Procs : EnsureLock(p)
    \/ \E p \in Procs : EnsureHop(p)
    \/ \E p \in Procs : DialRemote(p)
    \/ \E p \in Procs : DialTrack(p)
    \/ \E s \in Sessions : KeepAliveTick(s)
    \/ \E p \in Procs : CallClose(p)
    \/ \E p \in Procs : CloseLock(p)
    \/ \E p \in Procs : CloseConn(p)
    \/ \E p \in Procs : CloseSession(p)
    \/ \E p \in Procs : CloseClear(p)

NextKeep == ~crashed /\ StepKeep

SpecKeep == Init /\ [][NextKeep]_vars

\* The background goroutines of the tunnel: the accept loop and handlers of
\* LocalForward and the keepAlive loops, with Close.
ProcTasks(p) ==
    \/ EnsureLock(p)
    \/ EnsureHop(p)
    \/ DialRemote(p)
    \/ DialTrack(p)
    \/ ForwardListen(p)
    \/ ForwardTrack(p)
    \/ HandlerDial(p)
    \/ HandlerFail(p)
    \/ HandlerDone(p)
    \/ CloseLock(p)
    \/ CloseListener(p)
    \/ CloseConn(p)
    \/ CloseSession(p)
    \/ CloseClear(p)

StepTasks ==
    \/ \E p \in Procs : CallEnsure(p, "Forward")
    \/ \E p \in Procs : CallClose(p)
    \/ \E p \in Procs : ProcTasks(p)
    \/ \E ln \in Lns : Accept(ln)
    \/ \E ln \in Lns : AcceptFail(ln)
    \/ \E ln \in Lns : \E p \in Procs : AcceptTrack(ln, p)
    \/ \E p \in Procs : \E d \in {1, 2} : PipeCopyEnd(p, d)
    \/ \E c \in Conns : OnClose(c)
    \/ \E s \in Sessions : KeepAliveTick(s)
    \/ \E ln \in Lns : UserCloseListener(ln)

NextTasks == ~crashed /\ StepTasks

SpecTasks == Init /\ [][NextTasks]_vars

\* LocalForward, its accept loop and handlers, the callers closing the
\* listener or cancelling the ctx, and Close.
StepAccept ==
    \/ \E p \in Procs : CallEnsure(p, "Forward")
    \/ \E p \in Procs : CallClose(p)
    \/ \E p \in Procs : ProcTasks(p)
    \/ \E ln \in Lns : Accept(ln)
    \/ \E ln \in Lns : AcceptFail(ln)
    \/ \E ln \in Lns : \E p \in Procs : AcceptTrack(ln, p)
    \/ \E p \in Procs : \E d \in {1, 2} : PipeCopyEnd(p, d)
    \/ \E c \in Conns : OnClose(c)
    \/ \E ln \in Lns : UserCloseListener(ln)
    \/ \E ln \in Lns : CtxCancel(ln)

NextAccept == ~crashed /\ StepAccept

\* serveForward never looks at the chain: tunnels of one hop.
InitAccept == Init /\ Len(cfg.Hops) = 1

SpecAccept == InitAccept /\ [][NextAccept]_vars

\* Every object the bounds allow.
AllSessions == { << "sess", i, k >> : i \in 0 .. MaxHops - 1, k \in 1 .. MaxCalls }
AllConns == { << k, n >> : k \in {"conn", "tcp"}, n \in 1 .. MaxCalls + MaxAccepts }
LocalLns == { << "local", n >> : n \in 1 .. MaxCalls }

\* A copy direction of a bridge comes back from io.Copy by itself once one of
\* the two connections was closed.
PipeUnblocked(p, d) ==
    /\ lc[p] \in connClosed \/ res[p] \in connClosed
    /\ PipeCopyEnd(p, d)

\* The scheduler runs every goroutine that can take a step: the callers
\* inside an operation, the accept loops, the handlers, the close callbacks
\* and the keepAlive tickers.  Clients connecting and callers starting an
\* operation are not obliged to.
SpecTasksFair ==
    /\ SpecTasks
    /\ \A p \in Procs : WF_vars(~crashed /\ ProcTasks(p))
    /\ \A p \in Procs : WF_vars(~crashed /\ \E d \in {1, 2} : PipeUnblocked(p, d))
    /\ \A ln \in LocalLns : WF_vars(~crashed /\ AcceptFail(ln))
    /\ \A ln \in LocalLns : WF_vars(~crashed /\ \E p \in Procs : AcceptTrack(ln, p))
    /\ \A c \in AllConns : WF_vars(~crashed /\ OnClose(c))
    /\ \A s \in AllSessions : WF_vars(~crashed /\ KeepAliveTick(s))

\* The steps of SpecAccept that the scheduler owes: those of goroutines that
\* are running, as opposed to callers and clients deciding to act.
RunAccept ==
    \/ \E p \in Procs : ProcTasks(p)
    \/ \E ln \in Lns : AcceptFail(ln)
    \/ \E ln \in Lns : \E p \in Procs : AcceptTrack(ln, p)
    \/ \E c \in Conns : OnClose(c)

\* Some running goroutine takes a step as long as one can.  Every behaviour
\* of SpecAccept has finitely many steps, so this is as strong as fairness
\* for each goroutine.
SpecAcceptFair == SpecAccept /\ WF_vars(~crashed /\ RunAccept)

\* LocalForward with its accept loop and handlers, Dial, and Close.  A bridge
\* never gets to the end of pipe: the type assertion of direction 2 panics.
StepForward ==
    \/ \E p \in Procs : \E o \in {"Dial", "Forward"} : CallEnsure(p, o)
    \/ \E p \in Procs : EnsureLock(p)
    \/ \E p \in Procs : EnsureHop(p)
    \/ \E p \in Procs : DialRemote(p)
    \/ \E p \in Procs : DialTrack(p)
    \/ \E p \in Procs : ForwardListen(p)
    \/ \E p \in Procs : ForwardTrack(p)
    \/ \E ln \in Lns : Accept(ln)
    \/ \E ln \in Lns : AcceptFail(ln)
    \/ \E ln \in Lns : \E p \in Procs : AcceptTrack(ln, p)
    \/ \E p \in Procs : HandlerDial(p)
    \/ \E p \in Procs : HandlerFail(p)
    \/ \E p \in Procs : HandlerDone(p)
    \/ \E p \in Procs : \E d \in {1, 2} : PipeCopyEnd(p, d)
    \/ \E p \in Procs : CallClose(p)
    \/ \E p \in Procs : CloseLock(p)
    \/ \E p \in Procs : CloseListener(p)
    \/ \E p \in Procs : CloseConn(p)
    \/ \E p \in Procs : CloseSession(p)
    \/ \E p \in Procs : CloseClear(p)
    \/ \E ln \in Lns : UserCloseListener(ln)
    \/ \E c \in Conns : UserCloseConn(c)
    \/ \E c \in Conns : OnClose(c)

NextForward == ~crashed /\ StepForward

SpecForward == Init /\ [][NextForward]_vars

\* Dial, LocalForward with its handlers, the callers closing what they were
\* given, and Close, on tunnels of one hop, with the running goroutines
\* scheduled as in SpecAcceptFair.
SpecLock == InitAccept /\ [][NextForward]_vars

SpecLockFair == SpecLock /\ WF_vars(~crashed /\ RunAccept)

\* pipe(a, b) applied to any two connections: each a TCP connection or an SSH
\* channel, wrapped in a trackedConn (and tracked) when tracking is on.
InitPipe ==
    /\ cfg \in LiveConfigs
    /\ opts = << >>
    /\ osUser = << "r" >>
    /\ created = "tunnel"
    /\ hk = None
    /\ agentSock \in AgentStates(cfg)
    /\ \E p \in Procs, ka \in {"tcp", "conn"}, kb \in {"tcp", "conn"} :
         LET a == << ka, 1 >>
             b == << kb, 2 >>
         IN /\ clients = << >>
            /\ closed = FALSE
            /\ mu = NoOne
            /\ connTrack = IF cfg.TrackConns THEN {a, b} ELSE {}
            /\ listeners = {}
            /\ sessOpen = {} /\ sessClosed = {}
            /\ connOpen = {a, b} /\ connClosed = {}
            /\ lnOpen = {} /\ lnClosed = {}
            /\ onceRun = {} /\ onceDone = {}
            /\ serving = {}
            /\ keepAlives = {}
            /\ pc = [q \in Procs |-> IF q = p THEN "h_pipe" ELSE "idle"]
            /\ op = [q \in Procs |-> "none"]
            /\ hopIdx = [q \in Procs |-> 0]
            /\ res = [q \in Procs |-> IF q = p THEN b ELSE None]
            /\ errs = [q \in Procs |-> {}]
            /\ event = None
            /\ tunnelClosed = {}
            /\ buildFailed = FALSE
            /\ tornDown = 0
            /\ crashed = FALSE
            /\ calls = 0
            /\ tornResult = "none"
            /\ ph = None
            /\ underlay = {}
            /\ watchers = {} /\ ctxLive = {} /\ ctxDone = {}
            /\ accepted = {}
            /\ lc = [q \in Procs |-> IF q = p THEN a ELSE None]
            /\ copied = [q \in Procs |-> {}]
            /\ halfClosed = {}
            /\ fwdConns = {a, b}

StepPipe ==
    \/ \E p \in Procs : \E d \in {1, 2} : PipeCopyEnd(p, d)
    \/ \E p \in Procs : PipeClose(p)

NextPipe == ~crashed /\ StepPipe

SpecPipe == InitPipe /\ [][NextPipe]_vars

\* ------------------------------------------------------------------ properties
HopIdxs == 0 .. Len(cfg.Hops) - 1
SessCount(i) == Cardinality({s \in Sessions : HopOfSess(s) = i})
PastEnsure == {"d_dial", "d_track", "l_listen", "l_track", "f_listen", "f_track"}
TeardownLabels == {"c_ln", "c_conn", "c_sess", "c_clear"}
IsRet(e) == e # None /\ e[1] = "ret"
IsClose(e) == e # None /\ e[1] = "close"
IsLn(x) == x[1] \in {"remote", "local"}
IsConn(x) == x[1] = "conn"
IsSess(x) == x[1] = "sess"

\* Goroutine p enters a public operation in this step.
Started(p) ==
    /\ pc[p] = "idle"
    /\ calls' = calls + 1
    /\ pc'[p] # "idle" \/ (IsRet(event') /\ event'[2] = p)

\* The operation p enters in a step where Started(p) holds.
StartedOp(p) == IF pc'[p] # "idle" THEN op'[p] ELSE event'[3]

\* No goroutine is inside the teardown of Close.
TeardownDone == tornDown > 0 /\ \A p \in Procs : pc[p] \notin TeardownLabels

\* C1: as long as no Close has torn the tunnel down, no hop ever has two
\* sessions, whatever the number and interleaving of Dial/Listen/Forward
\* calls; if no build failed, a caller past ensureChain finds exactly one
\* session per configured hop (one handshake per hop); and a caller that
\* finds the session list populated goes on without creating a session or
\* taking the build path.
C1_State ==
    tornDown = 0 =>
      /\ \A i \in HopIdxs : SessCount(i) <= 1
      /\ (~buildFailed /\ \E p \in Procs : pc[p] \in PastEnsure) =>
           /\ Len(clients) = Len(cfg.Hops)
           /\ \A i \in HopIdxs : SessCount(i) = 1

C1_Step ==
    \A p \in Procs :
      (pc[p] = "ec_lock" /\ Len(clients) > 0 /\ pc'[p] # "ec_lock") =>
        /\ pc'[p] = AfterEnsure(op[p])
        /\ UNCHANGED << clients, sessOpen, sessClosed, mu >>

C1_ChainBuiltOnce == [] C1_State /\ [][C1_Step]_vars

\* Two goroutines are past ensureChain at once on a two-hop tunnel.
C1_Witness ==
    /\ tornDown = 0 /\ ~buildFailed
    /\ Len(cfg.Hops) = 2 /\ Len(clients) = 2
    /\ \A p \in Procs : pc[p] \in PastEnsure

\* C2: when the hop loop of ensureChain returns an error, every session the
\* attempt had established is closed and the session list is empty.
C2_NoPartialChain ==
    [][ \A p \in Procs :
          (pc[p] = "ec_hop" /\ pc'[p] = "idle") =>
            /\ clients' = << >>
            /\ \A k \in 1 .. Len(clients) : clients[k] \in sessClosed' ]_vars

\* C3: whenever the tunnel lock is free, the session list is empty or has
\* one entry per hop, entry k being the session of hop k.
C3_ChainAllOrNothing ==
    mu = NoOne =>
      /\ Len(clients) \in {0, Len(cfg.Hops)}
      /\ \A k \in 1 .. Len(clients) : HopOfSess(clients[k]) = k - 1

\* C4: only the first Close runs the teardown; a Close that starts with the
\* flag set returns nil in that step and changes nothing but the flag it
\* sets again; Close never closes an object it has closed before.
C4_Step ==
    /\ \A p \in Procs :
         (closed /\ Started(p) /\ StartedOp(p) = "Close") =>
           /\ event' = Ret(p, "Close", "nil", None)
           /\ UNCHANGED << tunnelVars, objVars, tunnelClosed, tornDown >>
    /\ IsClose(event') => event'[3] \notin tunnelClosed

C4_CloseIdempotent == [] (tornDown <= 1) /\ [][C4_Step]_vars

\* A later Close has returned nil after a teardown that closed a session.
C4_Witness ==
    /\ \E p \in Procs : event = Ret(p, "Close", "nil", None)
    /\ TeardownDone
    /\ \E x \in tunnelClosed : IsSess(x)
    /\ calls = MaxCalls

\* C5: a Dial, Listen or Forward call that starts when Close has been called
\* returns ErrClosed and creates no connection, listener or session.
C5_ClosedRejects ==
    [][ \A p \in Procs :
          (closed /\ Started(p) /\ StartedOp(p) \in {"Dial", "Listen", "Forward"}) =>
            /\ event' = Ret(p, StartedOp(p), ErrClosed, None)
            /\ UNCHANGED << tunnelVars, objVars >> ]_vars

\* A Dial was refused on a tunnel whose chain had been built and torn down.
C5_Witness ==
    /\ \E p \in Procs : event = Ret(p, "Dial", ErrClosed, None)
    /\ sessClosed # {}

\* C6: with tracking enabled, once the teardown of Close is over both tracker
\* sets are empty and every connection and listener handed to a caller has
\* been closed.
C6_AllClosedAfterClose ==
    (cfg.TrackConns /\ TeardownDone) =>
      /\ connTrack = {}
      /\ listeners = {}
      /\ \A c \in connOpen : InFlight(c)
      /\ \A ln \in lnOpen : InFlight(ln)

\* C7: Close closes a tracked connection only when no tracked listener is
\* left, and a session only when no tracked listener and (with tracking) no
\* tracked connection is left; the session it closes is the highest hop not
\* yet closed; the session list is cleared only when all its sessions were
\* closed.
C7_Step ==
    /\ IsClose(event') =>
         LET x == event'[3] IN
         /\ IsConn(x) => listeners = {}
         /\ IsSess(x) =>
              /\ listeners = {}
              /\ cfg.TrackConns => connTrack = {}
              /\ \E k \in 1 .. Len(clients) :
                   /\ clients[k] = x
                   /\ \A j \in 1 .. Len(clients) :
                        /\ j > k => clients[j] \in tunnelClosed
                        /\ j <= k => clients[j] \notin tunnelClosed
    /\ (clients # << >> /\ clients' = << >>) =>
         \A k \in 1 .. Len(clients) : clients[k] \in tunnelClosed

C7_TeardownOrder == [][C7_Step]_vars

\* The first hop's session is closed after a listener, a connection and the
\* second hop's session.
C7_Witness ==
    /\ IsClose(event) /\ IsSess(event[3]) /\ HopOfSess(event[3]) = 0
    /\ Len(clients) = 2
    /\ \E x \in tunnelClosed : IsLn(x)
    /\ \E x \in tunnelClosed : IsConn(x)

\* C8: in the teardown an error is collected exactly for a listener close
\* that failed with something other than "already closed" and for a session
\* close that failed, never for a connection close; the teardown returns only
\* when no tracked listener and (with tracking) no tracked connection is left
\* and every session was closed, it clears the session list, and it returns
\* nil exactly when nothing was collected.
C8_Step ==
    \A p \in Procs :
      /\ (pc[p] = "c_lock" /\ pc'[p] # "c_lock") => errs'[p] = {}
      /\ (IsClose(event') /\ event'[2] = p) =>
           LET x == event'[3]
               r == event'[4]
               failed == \/ IsLn(x) /\ r \notin {"nil", ErrClosed}
                         \/ IsSess(x) /\ r # "nil"
           IN errs'[p] = errs[p] \cup (IF failed THEN {x} ELSE {})
      /\ (pc[p] \in TeardownLabels \cup {"c_lock"} /\ pc'[p] = "idle") =>
           /\ listeners = {}
           /\ cfg.TrackConns => connTrack = {}
           /\ \A k \in 1 .. Len(clients) : clients[k] \in tunnelClosed
           /\ clients' = << >>
           /\ event' = Ret(p, "Close", IF errs[p] = {} THEN "nil" ELSE "ErrJoin", None)

C8_BestEffort == [][C8_Step]_vars

\* Close returns an aggregated error after closing a listener, a connection
\* and two sessions.
C8_Witness ==
    /\ \E p \in Procs : event = Ret(p, "Close", "ErrJoin", None)
    /\ Len(cfg.Hops) = 2
    /\ \E x \in tunnelClosed : IsLn(x)
    /\ \E x \in tunnelClosed : IsConn(x)
    /\ Cardinality({x \in tunnelClosed : IsSess(x)}) = 2

\* Create has applied every option without error and made its checks.
Checked == created # "pending" /\ opts = << >>

\* C9: when the options applied leave a configuration without hops, Create
\* returns ErrNoHops itself, whatever the authentication and other settings.
C9_NoHops == (Checked /\ Len(cfg.Hops) = 0) => created = ErrNoHops

\* Create refuses a configuration that has a signer and the agent, but no hop.
C9_Witness ==
    /\ created = ErrNoHops
    /\ cfg.UseAgent /\ Len(cfg.Signers) > 0

\* C10: when the options applied leave a configuration with a hop, no signer
\* and the agent not enabled, Create returns an error that errors.Is matches
\* with ErrNoAuth.
C10_NoAuth ==
    (Checked /\ Len(cfg.Hops) >= 1 /\ Len(cfg.Signers) = 0 /\ ~cfg.UseAgent) =>
      unwrap(created) = ErrNoAuth

\* Create refuses a configuration with a hop and tracking switched off that
\* has no authentication.
C10_Witness ==
    /\ unwrap(created) = ErrNoAuth
    /\ Len(cfg.Hops) >= 1
    /\ cfg.TrackConns = FALSE

\* C11: when the options applied leave a configuration with a hop and a signer
\* or the agent enabled, Create returns a tunnel, and it has made no dial, no
\* agent connection and no handshake: the tunnel is not closed, its session
\* list and both trackers are empty, and no session, connection or listener
\* exists.
C11_CreateDecoupled ==
    (Checked /\ Len(cfg.Hops) >= 1 /\ (Len(cfg.Signers) > 0 \/ cfg.UseAgent)) =>
      /\ created = "tunnel"
      /\ ~closed /\ clients = << >> /\ connTrack = {} /\ listeners = {}
      /\ Sessions = {} /\ Conns = {} /\ Lns = {}
      /\ keepAlives = {} /\ mu = NoOne

\* Create returns a tunnel for a hop and the agent alone.
C11_Witness ==
    /\ created = "tunnel"
    /\ cfg.UseAgent /\ Len(cfg.Signers) = 0 /\ Len(cfg.Hops) = 1

\* C13: when DialContext or ListenContext opens its channel or listener, the
\* session it uses is that of the last configured hop and every configured
\* hop has a session.
C13_LastHop ==
    [][ \A p \in Procs :
          (pc[p] \in {"d_dial", "l_listen"} /\ pc'[p] \in {"d_track", "l_track"}) =>
            /\ Len(clients) = Len(cfg.Hops)
            /\ HopOfSess(clients[Len(clients)]) = Len(cfg.Hops) - 1
            /\ \A i \in HopIdxs : SessCount(i) >= 1 ]_vars

\* C14: one goroutine at a time runs the hop loop, under the lock, and its
\* loop index is the number of sessions appended; the session it appends is
\* that of the next hop, dialed directly for hop 0 and through the open
\* session of the previous hop, the last one appended, for a later hop.
C14_State ==
    /\ Cardinality({p \in Procs : pc[p] = "ec_hop"}) <= 1
    /\ \A p \in Procs : pc[p] = "ec_hop" => (mu = p /\ hopIdx[p] = Len(clients))

C14_Step ==
    Len(clients') > Len(clients) =>
      LET s == clients'[Len(clients')]
          i == HopOfSess(s)
      IN /\ clients' = Append(clients, s)
         /\ i = Len(clients)
         /\ s \notin Sessions
         /\ \E v \in {Direct} \cup sessOpen : << s, v >> \in underlay'
         /\ \A u \in underlay' :
              u[1] = s =>
                IF i = 0 THEN u[2] = Direct
                ELSE /\ u[2] = clients[i]
                     /\ HopOfSess(u[2]) = i - 1
                     /\ u[2] \in sessOpen

C14_Sequential == [] C14_State /\ [][C14_Step]_vars

\* The second hop's session was dialed through the first hop's.
C14_Witness ==
    /\ Len(clients) = 2
    /\ << clients[2], clients[1] >> \in underlay
    /\ << clients[1], Direct >> \in underlay

\* C15: no interleaving of Dial or Listen with Close makes the process panic.
C15_NoPanic == ~crashed

\* C16 (as stated): a Close call returns only when no goroutine is still to
\* run or running the teardown, and with the result the teardown returned.
C16_SameOutcome ==
    [][ \A p \in Procs :
          (IsRet(event') /\ event'[2] = p /\ event'[3] = "Close") =>
            /\ \A q \in Procs : pc'[q] \notin TeardownLabels \cup {"c_lock"}
            /\ event'[4] = tornResult' ]_vars

\* C16 (amended): the teardown runs at most once; the call that runs it
\* returns when its loops are over, with the aggregated result; every other
\* Close call returns nil at once, whatever the teardown has reached and
\* whatever it returns.
C16_Step ==
    \A p \in Procs :
      (IsRet(event') /\ event'[2] = p /\ event'[3] = "Close") =>
        \/ /\ pc[p] = "c_clear"
           /\ tornResult = "none"
           /\ event'[4] = tornResult'
           /\ event'[4] = IF errs[p] = {} THEN "nil" ELSE "ErrJoin"
        \/ /\ pc[p] = "idle" /\ closed
           /\ event'[4] = "nil"
           /\ UNCHANGED << tornResult, tornDown, tunnelVars, objVars >>

C16_OneTeardown == [] (tornDown <= 1) /\ [][C16_Step]_vars

\* A Close has returned nil while another goroutine is in the teardown and
\* has collected an error.
C16_Witness ==
    /\ \E p \in Procs : event = Ret(p, "Close", "nil", None)
    /\ \E q \in Procs : pc[q] \in TeardownLabels /\ errs[q] # {}

\* The host-key sources of hop hk.i that are set, by priority: 1 the hop's
\* callback, 2 the hop's known-hosts file, 3 the global callback, 4 the
\* global known-hosts path, 5 the default path (always applicable).
HostKeySet(k) ==
    LET h == cfg.Hops[hk.i + 1] IN
    CASE k = 1 -> h.HostKeyCallback # "nil"
      [] k = 2 -> h.KnownHostsPath # << >>
      [] k = 3 -> cfg.HostKeyCB # "nil"
      [] k = 4 -> cfg.KnownHostsPath # << >>
      [] k = 5 -> TRUE

\* What source k yields for hop hk.i.
HostKeyValue(k) ==
    LET h == cfg.Hops[hk.i + 1] IN
    CASE k = 1 -> << "func", h.HostKeyCallback >>
      [] k = 2 -> << "file", h.KnownHostsPath >>
      [] k = 3 -> << "func", cfg.HostKeyCB >>
      [] k = 4 -> << "file", cfg.KnownHostsPath >>
      [] k = 5 -> << "file", (IF hk.dir # << >> THEN hk.dir ELSE hk.env)
                               \o KnownHostsSuffix >>

\* C18: the callback of a hop comes from the first source that is set, in
\* the order hop callback, hop known-hosts file, global callback, global
\* known-hosts path, default path; a source that is set but cannot be loaded
\* is not skipped: the build is aborted with an error that carries the hop's
\* index.
C18_HostKeyPrecedence ==
    (hk # None /\ hk.out # None) =>
      LET first == CHOOSE k \in 1 .. 5 :
                     HostKeySet(k) /\ \A j \in 1 .. k - 1 : ~HostKeySet(j)
      IN IF hk.out[1] = "hkcb"
         THEN /\ hk.out[2].level = first
              /\ hk.out[2].cb = HostKeyValue(first)
              /\ first \in {2, 4, 5} => hk.out[2].cb[2] \in hk.readable
         ELSE /\ hk.out[1] = "abort"
              /\ hk.out[2][1] = "hop known_hosts"
              /\ hk.out[2][2] = hk.i
              /\ first \in {2, 4, 5}
              /\ \/ HostKeyValue(first)[2] \notin hk.readable
                 \/ first = 5 /\ hk.dir = << >> /\ hk.env = << >>

\* The hop's known-hosts file is used although a global callback and a
\* global path are set, for the second hop.
C18_Witness ==
    /\ hk # None /\ hk.out # None
    /\ hk.out[1] = "hkcb" /\ hk.out[2].level = 2
    /\ cfg.HostKeyCB # "nil" /\ cfg.KnownHostsPath # << >>
    /\ hk.i = 1

\* C20: the watcher of a listener closes it only once the ctx given to
\* ListenContext is done, and then it does close it (as long as the process
\* has not died); any other close of a listener is one made by Tunnel.Close
\* or by the caller.
C20_Step ==
    \A ln \in RemoteLns :
      (ln \in lnOpen /\ ln \notin lnOpen') =>
        \/ IsClose(event') /\ event'[3] = ln /\ pc[event'[2]] = "c_ln"
        \/ ln \in watchers /\ ln \notin watchers' /\ ln \in ctxDone
        \/ watchers' = watchers /\ event' = None /\ ~InFlight(ln)

C20_CtxClosesListener ==
    /\ [][C20_Step]_vars
    /\ \A ln \in RemoteLns : (ln \in ctxDone) ~> (ln \in lnClosed \/ crashed)

\* The watcher has closed a listener that Tunnel.Close had not touched.
C20_Witness ==
    \E ln \in lnClosed :
      /\ ln \in ctxDone /\ ln \notin watchers
      /\ ln \notin tunnelClosed /\ ln \in listeners
      /\ ~closed

\* A handler of serveForward whose DialContext returned an error.
OnFailPath(p) == pc[p] \in {"h_fail", "h_unreg"}
PipeEnds(p) == pc[p] = "h_pipe" /\ pc'[p] # "h_pipe"

\* C12: a connection returned by Dial or wrapped by Forward is in the
\* connection tracker from the moment it is handed out until it is first
\* closed; it enters the tracker only as a new, never closed connection, it
\* leaves the tracker only by being closed, and once its Close has run or
\* Tunnel.Close has closed it, it is not in the tracker, whoever closed it.
Untracked(c) ==
    \/ \E p \in Procs : pc[p] = "d_track" /\ res[p] = c
    \/ \E a \in accepted : a[2] = c

C12_State ==
    cfg.TrackConns =>
        /\ \A c \in connOpen : ~Untracked(c) => c \in connTrack
        /\ \A c \in onceDone \cup tunnelClosed : c \notin connTrack

C12_Step ==
    \A c \in connTrack \cup connTrack' :
        /\ (c \notin connTrack /\ c \in connTrack') =>
               /\ c \in connOpen /\ c \notin connClosed
               /\ c \notin onceRun \cup onceDone \cup tunnelClosed
        /\ (c \in connTrack /\ c \notin connTrack') => c \in connClosed'

C12_TrackedUntilClosed == [](C12_State) /\ [][C12_Step]_vars

\* C12 witness: with tracking on, a connection wrapped by Forward and a
\* connection returned by Dial have both been closed and are out of the
\* tracker, one by its own Close and the other by Tunnel.Close.
C12_Witness ==
    /\ cfg.TrackConns
    /\ connTrack = {}
    /\ \E c \in onceDone : c[1] = "tcp"
    /\ \E c \in tunnelClosed : IsConn(c) /\ c[1] = "conn"

\* C17: a bridge half-closes the destination of a direction when that
\* direction ends, and closes both connections only after both directions
\* have ended; the end of a direction never brings the process down.
C17_Step ==
    \A p \in Procs :
        pc[p] = "h_pipe" =>
            /\ ~crashed'
            /\ \A d \in {1, 2} :
                   (d \notin copied[p] /\ d \in copied'[p]) =>
                       /\ PipeDest(p, d) \in halfClosed'
                       /\ PipeDest(p, d) \in connOpen'
            /\ PipeEnds(p) =>
                   /\ copied[p] = {1, 2}
                   /\ {lc[p], res[p]} \subseteq connClosed'

C17_BridgeHalfClose == [][C17_Step]_vars

\* C19: when the outbound dial of a forward handler fails, also with the
\* closed error, the handler closes the local connection, which leaves the
\* tracker, starts no bridge, and the accept loop is left running.
C19_State ==
    \A p \in Procs :
        /\ pc[p] = "h_unreg" => lc[p] \in connClosed
        /\ OnFailPath(p) => copied[p] = {} /\ res[p] \notin Conns

C19_Step ==
    \A p \in Procs :
        OnFailPath(p) =>
            /\ pc'[p] \in {"h_fail", "h_unreg", "idle"}
            /\ (lc'[p] = None) =>
                   /\ lc[p] \in connClosed'
                   /\ lc[p] \notin connTrack'
                   /\ serving' = serving
                   /\ copied'[p] = {}

C19_DialFailureClosesLocal == [](C19_State) /\ [][C19_Step]_vars

\* C19 witness: with tracking on, a handler whose dial was refused with the
\* closed error has closed its local connection, which has left the tracker,
\* and the accept loop that started it is still serving.
C19_Witness ==
    /\ cfg.TrackConns
    /\ serving # {}
    /\ \E p \in Procs :
         /\ pc[p] = "h_unreg"
         /\ res[p] = << ErrClosed, 0 >>
         /\ lc[p] \in connClosed \cap onceDone
         /\ lc[p] \notin connTrack

IsKeep(e) == e # None /\ e[1] = "keepalive"

\* C21: a keepAlive loop ends with the first request that fails to be sent or
\* that the hop does not answer favorably, and a tick never closes a session;
\* a session gets its loop when it is created, exactly when the keepalive
\* interval is non-zero, and no loop is started at any other time.
C21_Step ==
    /\ IsKeep(event') =>
           /\ event'[3] # "ok" => event'[2] \notin keepAlives'
           /\ sessOpen' = sessOpen /\ sessClosed' = sessClosed
    /\ \A s \in Sessions' :
           /\ s \notin Sessions => (s \in keepAlives' <=> cfg.KeepAlive > 0)
           /\ (s \in keepAlives' /\ s \notin keepAlives) => s \notin Sessions

C21_KeepAliveStops == [][C21_Step]_vars

\* C22: once the closed flag is set no session is created and none is
\* appended to the session list, whatever operation is in flight, and so no
\* session is open when the teardown of Close is over.
C22_Step == closed => (Sessions' = Sessions /\ Len(clients') <= Len(clients))

C22_ClosedCheckUnderLock == [][C22_Step]_vars /\ [](TeardownDone => sessOpen = {})

\* C23: after Close was called, unless the process is gone, every accept
\* loop, every bridge and every keepAlive loop of the tunnel eventually ends.
TasksOver ==
    /\ serving = {}
    /\ keepAlives = {}
    /\ \A p \in Procs : pc[p] # "h_pipe"

C23_TasksTerminate == closed ~> (crashed \/ TasksOver)

\* C24: in a bridge started by a forward handler, with tracking on or off,
\* the end of a copy direction half-closes the connection copied into and
\* never aborts the process.
C24_Step ==
    \A p \in Procs :
        pc[p] = "h_pipe" =>
            /\ event' # << "panic", p >>
            /\ \A d \in {1, 2} :
                   (d \notin copied[p] /\ d \in copied'[p]) =>
                       PipeDest(p, d) \in halfClosed'

C24_ForwardBridgeRuns == [][C24_Step]_vars

\* C25: an accept loop ends only in a step in which Accept fails on its
\* closed listener: no handler step, no end of a bridge direction and no
\* cancellation of the ctx given to LocalForward ends it; and once its
\* listener is closed the loop does end, unless the process is gone.
C25_Step ==
    \A ln \in serving :
        ln \notin serving' => ln \in lnClosed /\ event' = None /\ pc' = pc

C25_Live ==
    \A ln \in LocalLns :
        (ln \in serving /\ ln \in lnClosed) ~> (crashed \/ ln \notin serving)

C26_State ==
    /\ \A ln \in lnOpen : ~InFlight(ln) => ln \in listeners
    /\ \A ln \in lnClosed \ tunnelClosed : ln \notin listeners

C26_Step == \A ln \in listeners : ln \notin listeners' => ln \in lnClosed'

C26_ListenerTracker == [](C26_State) /\ [][C26_Step]_vars

\* C27: a connection is registered when Dial returns it or the accept loop
\* wraps it exactly when tracking is enabled; with tracking disabled the
\* connection tracker is always empty and Close closes no connection, while
\* its teardown still ends with every tracked listener closed and removed
\* and every session of the session list closed.
C27_State ==
    ~cfg.TrackConns =>
        /\ connTrack = {}
        /\ \A c \in Conns : c \notin tunnelClosed

C27_Step ==
    /\ \A p \in Procs :
         (pc[p] = "d_track" /\ pc'[p] # "d_track") =>
             (res[p] \in connTrack' <=> cfg.TrackConns)
    /\ \A a \in accepted :
         a \notin accepted' => (a[2] \in connTrack' <=> cfg.TrackConns)
    /\ \A p \in Procs :
         (pc[p] = "c_clear" /\ pc'[p] # "c_clear") =>
             /\ listeners = {}
             /\ \A i \in 1 .. Len(clients) : clients[i] \in sessClosed
             /\ connOpen' = connOpen

C27_TrackingIffEnabled == [](C27_State) /\ [][C27_Step]_vars

\* C27 witness: with tracking disabled the teardown of Close is over, it has
\* closed a listener and a session, and a connection returned by Dial and a
\* connection accepted by a forward loop are still open.
C27_Witness ==
    /\ ~cfg.TrackConns
    /\ TeardownDone
    /\ \E ln \in tunnelClosed : IsLn(ln)
    /\ \E s \in tunnelClosed : IsSess(s)
    /\ \E c \in connOpen : c[1] = "conn" /\ c \notin fwdConns /\ ~InFlight(c)
    /\ \E c \in connOpen : c[1] = "tcp" /\ \A a \in accepted : a[2] # c

\* C28: when the last session rejects the dial of Dial or the listen of
\* Listen, the call returns that error and the step changes neither the
\* session list nor a tracker nor the closed flag nor any session,
\* connection or listener; the steps that took the call over a populated
\* session list to that point changed none of them either.  The session list
\* is still populated, so the next call goes past ensureChain without
\* building.
PostChainFailed(p) ==
    /\ pc[p] \in {"d_dial", "l_listen"}
    /\ IsRet(event') /\ event'[2] = p

C28_Step ==
    \A p \in Procs :
        /\ PostChainFailed(p) =>
               /\ event'[4] = (IF pc[p] = "d_dial" THEN "ErrDialRemote"
                                                    ELSE "ErrListenRemote")
               /\ event'[5] = None
               /\ Len(clients') > 0
               /\ UNCHANGED << tunnelVars, objVars >>
        /\ (pc[p] = "ec_lock" /\ pc'[p] \in {"d_dial", "l_listen"}
               /\ Len(clients) > 0) =>
               UNCHANGED << tunnelVars, objVars >>
        /\ (Started(p) /\ StartedOp(p) \in {"Dial", "Listen"}) =>
               UNCHANGED << tunnelVars, objVars >>

C28_PostChainFailure == [][C28_Step]_vars

\* C28 witness: a Dial has just been rejected by the last session of a fully
\* built, live chain of a tunnel that is not closed, while a connection
\* returned by an earlier Dial is still open and tracked.
C28_Witness ==
    /\ \E p \in Procs : event = Ret(p, "Dial", "ErrDialRemote", None)
    /\ ~closed
    /\ Len(clients) = Len(cfg.Hops)
    /\ Alive(clients[Len(clients)])
    /\ \E c \in connOpen \cap connTrack : ~InFlight(c)

\* C29: a call that finds the session list empty under the lock returns the
\* "no auth" error exactly when there is no signer and no reachable agent to
\* use at that moment, whatever earlier calls found; it then has created no
\* session, changed nothing in the tunnel and left the lock free.  Otherwise
\* it goes on to the first hop.
NoMethod == Len(cfg.Signers) = 0 /\ ~(cfg.UseAgent /\ agentSock)

C29_Step ==
    \A p \in Procs :
        (pc[p] = "ec_lock" /\ pc'[p] # "ec_lock" /\ Len(clients) = 0) =>
            IF NoMethod
            THEN /\ event' = Ret(p, op[p], ErrNoAuth, None)
                 /\ clients' = << >>
                 /\ Sessions' = Sessions
                 /\ mu' = NoOne
                 /\ UNCHANGED << tunnelVars, objVars >>
            ELSE /\ pc'[p] = "ec_hop"
                 /\ hopIdx'[p] = 0
                 /\ event' = None

C29_NoAuthAtFirstUse == [][C29_Step]_vars

\* C29 witness: with the agent as the only source and no agent reachable, a
\* call has just returned the "no auth" error on an empty session list, after
\* an earlier call had found the agent and failed at a hop.
C29_Witness ==
    /\ \E p \in Procs : \E o \in {"Dial", "Listen", "Forward"} :
         event = Ret(p, o, ErrNoAuth, None)
    /\ cfg.UseAgent /\ ~agentSock
    /\ clients = << >> /\ Sessions = {}
    /\ buildFailed

\* C30: the goroutine that holds the tunnel lock never runs a close callback,
\* which would ask for the lock again; it always releases the lock; and
\* every goroutine and every close callback that waits for the lock gets
\* it, as long as the process has not been aborted.  A connection's callback
\* runs once, so all callbacks get the lock exactly if the set of waiting
\* callbacks is empty again and again.
LockWait(p) ==
    \/ pc[p] \in {"ec_lock", "c_lock", "l_track", "f_track"}
    \/ pc[p] = "d_track" /\ cfg.TrackConns

C30_Step ==
    \A p \in Procs :
        (mu = p /\ (pc'[p] # pc[p] \/ (IsClose(event') /\ event'[2] = p))) =>
            /\ onceRun' = onceRun
            /\ onceDone' = onceDone

C30_Live ==
    /\ \A p \in Procs : (mu = p) ~> (crashed \/ mu # p)
    /\ \A p \in Procs : LockWait(p) ~> (crashed \/ ~LockWait(p))
    /\ (onceRun # {}) ~> (crashed \/ onceRun = {})

C30_NoLockDeadlock == [][C30_Step]_vars /\ C30_Live

\* C30 witness: Close holds the lock and has closed a tracked connection
\* while the close callback of another connection and a Dial are waiting for
\* the lock.
C30_Witness ==
    /\ \E p \in Procs : mu = p /\ pc[p] \in TeardownLabels
    /\ \E c \in tunnelClosed : IsConn(c)
    /\ onceRun # {}
    /\ \E p \in Procs : pc[p] = "ec_lock"

\* The place of the first "@" of s, 0 when s has none.
AtPos(s) ==
    IF \E k \in 1 .. Len(s) : s[k] = "@"
    THEN CHOOSE k \in 1 .. Len(s) : s[k] = "@" /\ \A j \in 1 .. k - 1 : s[j] # "@"
    ELSE 0

\* What s gives as user (before its first "@") and as address (after it).
GivenUser(s) == SubSeq(s, 1, AtPos(s) - 1)
GivenAddr(s) == SubSeq(s, AtPos(s) + 1, Len(s))

\* s gives no user and the current user cannot be looked up.
Unparsable(s) == GivenUser(s) = << >> /\ osUser = << >>

\* The strings of a list that are not empty, in the order of the list.
NonEmptySpecs(hops) == SelectSeq(hops, LAMBDA s : s # << >>)

\* h is the hop that the string s describes: the user s gives, the current
\* user when it gives none; the address s gives, with port 22 when it gives
\* no port; nothing else set.
HopFor(s, h) ==
    /\ h.User # << >>
    /\ h.User = IF GivenUser(s) # << >> THEN GivenUser(s) ELSE osUser
    /\ Contains(h.HostPort, ":")
    /\ h.HostPort = IF Contains(GivenAddr(s), ":") THEN GivenAddr(s)
                    ELSE GivenAddr(s) \o << ":", "2", "2" >>
    /\ h = Hop(h.User, h.HostPort)

\* C31: when ParseHops returns, either no non-empty string of the list is
\* unparsable and it returns no error and one hop for each non-empty string,
\* in the order of the list, every hop with a non-empty user and an address
\* that has port 22 when the string gives no port (empty strings add no hop
\* and no error); or it returns an error and no hop, having stopped at the
\* first non-empty string that is unparsable.
C31_ParseHops ==
    (ph # None /\ ph.pc = "done") =>
      LET ne == NonEmptySpecs(ph.hops)
          bad == { k \in 1 .. Len(ph.hops) :
                     ph.hops[k] # << >> /\ Unparsable(ph.hops[k]) }
      IN IF bad = {}
         THEN /\ ph.err = "nil"
              /\ Len(ph.out) = Len(ne)
              /\ \A k \in 1 .. Len(ne) : HopFor(ne[k], ph.out[k])
         ELSE /\ ph.err # "nil"
              /\ ph.out = << >>
              /\ ph.i + 1 \in bad
              /\ \A k \in bad : ph.i + 1 <= k

\* ParseHops has returned for an empty string followed by "a@a": one hop,
\* user "a", address "a:22".
C31_Witness ==
    /\ ph # None
    /\ ph.pc = "done"
    /\ ph.hops = << << >>, << "a", "@", "a" >> >>
    /\ ph.err = "nil"
    /\ ph.out = << Hop(<< "a" >>, << "a", ":", "2", "2" >>) >>

====
